---- MODULE Spec2Model ----
(***************************************************************************)
(* LeetOps rating engine: the incident scorer, the rating aggregator, the   *)
(* rating report, the resolve flow that persists the rating, and the       *)
(* TimerManager with its background threads.                               *)
(*                                                                         *)
(* Python floats are modelled as exact rationals [num, den] (den > 0).     *)
(* Where the float result differs from the exact one (the product with the *)
(* smoothing factor 0.7) the operator that models the code says so.        *)
(***************************************************************************)
EXTENDS Integers, Sequences, FiniteSets, TLC

VARIABLES
    call,            \* the pending call of a pure entry point: its name and arguments
    ret,             \* what that call returned
    user_rating,     \* the persisted UserRating row of the user
    attempts,        \* the user's persisted IncidentAttempt rows, newest first
    incidents,       \* the persisted Incident rows: id -> status
    req,             \* per resolve request: its position, its locals, its response
    active_timers,   \* TimerManager.active_timers: incident_id -> timer_info, in insertion order
    timer_callbacks, \* TimerManager.timer_callbacks: incident_id -> callback
    timer_infos,     \* the timer_info dicts ever made, by reference: shared and mutable
    timer_threads,   \* the background threads, one per start_timer: position and locals
    now,             \* the clock, in minutes
    main,            \* the caller of the TimerManager: the call it is in, or its last return
    invoked          \* the callback invocations so far, in order

timer_vars ==
    <<active_timers, timer_callbacks, timer_infos, timer_threads, now, main, invoked>>

vars == <<call, ret, user_rating, attempts, incidents, req, timer_vars>>

(***************************************************************************)
(* Python values                                                           *)
(***************************************************************************)
\* Python's None; an optional value is <<>> or <<v>>.
None == <<>>

Some(v) == <<v>>

Rat(n, d) == [num |-> n, den |-> d]

\* a < b and a <= b on rationals with den >= 0; den = 0 stands for float('inf')
RatLt(a, b) == a.num * b.den < b.num * a.den

RatLe(a, b) == a.num * b.den <= b.num * a.den

RatEq(a, b) == a.num * b.den = b.num * a.den

RatMul(a, b) == Rat(a.num * b.num, a.den * b.den)

\* Python's a / b on ints: a float, or ZeroDivisionError
TrueDiv(a, b) == IF b = 0 THEN [raised |-> "ZeroDivisionError"] ELSE Rat(a, b)

Raised(v) == "raised" \in DOMAIN v

\* dict.get(key, default)
Get(d, key, default) == IF key \in DOMAIN d THEN d[key] ELSE default

\* Python's round() of the exact rational n/d, d > 0: to nearest, ties to even
RoundHalfEven(n, d) ==
    LET q == n \div d
        r == n - q * d
    IN  IF 2 * r > d THEN q + 1
        ELSE IF 2 * r < d THEN q
        ELSE IF q % 2 = 0 THEN q ELSE q + 1

\* a conversion that rounds down instead of toward zero
Trunc_mut_floor(n, d) == n \div d

\* Python's int() of the exact rational n/d, d > 0: truncation toward zero
Trunc(n, d) == IF n >= 0 THEN n \div d ELSE -((-n) \div d)

Abs(n) == IF n < 0 THEN -n ELSE n

Min(S) == CHOOSE m \in S : \A o \in S : m <= o

RECURSIVE Pow2Floor(_)
\* the largest power of two <= x, for x >= 1
Pow2Floor(x) == IF x < 2 THEN 1 ELSE 2 * Pow2Floor(x \div 2)

RECURSIVE SumSeq(_)
SumSeq(s) == IF s = <<>> THEN 0 ELSE Head(s) + SumSeq(Tail(s))

Take(s, n) == SubSeq(s, 1, IF Len(s) < n THEN Len(s) ELSE n)

(***************************************************************************)
(* RatingCalculator: the tables                                            *)
(***************************************************************************)
BASE_RATING == 800

\* a slip in the table: the mid band starts one point late
RATING_CATEGORIES_mut_gap ==
    << [category |-> "junior", min_rating |-> 800,  max_rating |-> 999],
       [category |-> "mid",    min_rating |-> 1001, max_rating |-> 1199],
       [category |-> "senior", min_rating |-> 1200, max_rating |-> 1399],
       [category |-> "staff",  min_rating |-> 1400, max_rating |-> 1600] >>

\* in the dict's insertion order, which is the order the loop visits

RATING_CATEGORIES ==
    << [category |-> "junior", min_rating |-> 800,  max_rating |-> 999],
       [category |-> "mid",    min_rating |-> 1000, max_rating |-> 1199],
       [category |-> "senior", min_rating |-> 1200, max_rating |-> 1399],
       [category |-> "staff",  min_rating |-> 1400, max_rating |-> 1600] >>

\* a slip in the table: the bonuses of two bands exchanged
SPEED_BONUSES_mut_swapped ==
    << [category |-> "excellent",    min_ratio |-> Rat(0, 1), max_ratio |-> Rat(1, 4), bonus |-> 50],
       [category |-> "good",         min_ratio |-> Rat(1, 4), max_ratio |-> Rat(1, 2), bonus |-> 15],
       [category |-> "satisfactory", min_ratio |-> Rat(1, 2), max_ratio |-> Rat(3, 4), bonus |-> 30],
       [category |-> "adequate",     min_ratio |-> Rat(3, 4), max_ratio |-> Rat(1, 1), bonus |-> 5],
       [category |-> "poor",         min_ratio |-> Rat(1, 1), max_ratio |-> Rat(1, 0), bonus |-> 0] >>

\* in the dict's insertion order, which is the order the loops visit
SPEED_BONUSES ==
    << [category |-> "excellent",    min_ratio |-> Rat(0, 1), max_ratio |-> Rat(1, 4), bonus |-> 50],
       [category |-> "good",         min_ratio |-> Rat(1, 4), max_ratio |-> Rat(1, 2), bonus |-> 30],
       [category |-> "satisfactory", min_ratio |-> Rat(1, 2), max_ratio |-> Rat(3, 4), bonus |-> 15],
       [category |-> "adequate",     min_ratio |-> Rat(3, 4), max_ratio |-> Rat(1, 1), bonus |-> 5],
       [category |-> "poor",         min_ratio |-> Rat(1, 1), max_ratio |-> Rat(1, 0), bonus |-> 0] >>

\* a slip in the table: a wrong root_cause multiplier
QUALITY_MULTIPLIERS_mut_root_cause ==
    [root_cause  |-> Rat(3, 2),
     workaround  |-> Rat(1, 1),
     escalation  |-> Rat(1, 2),
     abandonment |-> Rat(0, 1)]

QUALITY_MULTIPLIERS ==
    [root_cause  |-> Rat(2, 1),
     workaround  |-> Rat(1, 1),
     escalation  |-> Rat(1, 2),
     abandonment |-> Rat(0, 1)]

\* a slip in the table: the timeout and escalation penalties exchanged
PENALTIES_mut_swapped == [give_up |-> -20, timeout |-> -5, escalation |-> -10]

PENALTIES == [give_up |-> -20, timeout |-> -10, escalation |-> -5]

\* a slip in the table: a wrong P1 weight
SEVERITY_WEIGHTS_mut_p1 == [P0 |-> 100, P1 |-> 70, P2 |-> 50, P3 |-> 25]

SEVERITY_WEIGHTS == [P0 |-> 100, P1 |-> 75, P2 |-> 50, P3 |-> 25]

(***************************************************************************)
(* RatingCalculator: the alternate (0-100 score) scorer                    *)
(***************************************************************************)
\* a guard that lets a zero limit through to the division
groq_limit_is_positive_mut_ge(time_limit_minutes) == time_limit_minutes >= 0

\* the guard of both divisions of calculate_rating_with_groq_score
groq_limit_is_positive(time_limit_minutes) == time_limit_minutes > 0

groq_base_rating_change(llm_score) ==
    IF llm_score >= 80 THEN 25
    ELSE IF llm_score >= 50 THEN 10
    ELSE -15

\* a time multiplier that rewards a high score only at ratio <= 0.5
groq_time_multiplier_mut_stated(llm_score, time_ratio) ==
    IF llm_score >= 80 THEN
        IF RatLe(time_ratio, Rat(1, 2)) THEN Rat(15, 10) ELSE Rat(10, 10)
    ELSE IF llm_score >= 50 THEN
        IF RatLe(time_ratio, Rat(1, 2)) THEN Rat(12, 10)
        ELSE IF RatLe(time_ratio, Rat(3, 4)) THEN Rat(10, 10)
        ELSE Rat(8, 10)
    ELSE Rat(10, 10)

\* the time multiplier, given the ratio already computed
groq_time_multiplier(llm_score, time_ratio) ==
    IF llm_score >= 80 THEN
        IF RatLe(time_ratio, Rat(1, 2)) THEN Rat(15, 10)
        ELSE IF RatLe(time_ratio, Rat(3, 4)) THEN Rat(12, 10)
        ELSE Rat(10, 10)
    ELSE IF llm_score >= 50 THEN
        IF RatLe(time_ratio, Rat(1, 2)) THEN Rat(12, 10)
        ELSE IF RatLe(time_ratio, Rat(3, 4)) THEN Rat(10, 10)
        ELSE Rat(8, 10)
    ELSE Rat(10, 10)

severity_weights == [P0 |-> Rat(15, 10), P1 |-> Rat(12, 10), P2 |-> Rat(10, 10), P3 |-> Rat(8, 10)]

\* a wrong default: the P1 multiplier for an unknown severity
groq_severity_multiplier_mut_default(severity) == Get(severity_weights, severity, Rat(12, 10))

groq_severity_multiplier(severity) == Get(severity_weights, severity, Rat(10, 10))

calculate_rating_with_groq_score(llm_score, time_spent_minutes, time_limit_minutes, severity) ==
    LET base_rating_change == groq_base_rating_change(llm_score)
        divided == IF groq_limit_is_positive(time_limit_minutes)
                   THEN TrueDiv(time_spent_minutes, time_limit_minutes)
                   ELSE Rat(1, 1)
    IN  IF Raised(divided) THEN divided
        ELSE
        LET time_multiplier == IF groq_limit_is_positive(time_limit_minutes)
                               THEN groq_time_multiplier(llm_score, divided)
                               ELSE Rat(10, 10)
            severity_multiplier == groq_severity_multiplier(severity)
            product == RatMul(time_multiplier, severity_multiplier)
        IN  [base_rating_change  |-> base_rating_change,
             time_multiplier     |-> time_multiplier,
             severity_multiplier |-> severity_multiplier,
             final_rating_change |-> Trunc(base_rating_change * product.num, product.den),
             llm_score           |-> llm_score,
             time_ratio          |-> divided,
             calculation_breakdown |->
                 [severity    |-> severity,
                  time_limit  |-> time_limit_minutes,
                  actual_time |-> time_spent_minutes,
                  llm_score   |-> llm_score,
                  quality_category |-> IF llm_score >= 80 THEN "high"
                                       ELSE IF llm_score >= 50 THEN "medium" ELSE "poor"]]

(***************************************************************************)
(* RatingCalculator: the standard scorer                                   *)
(***************************************************************************)
\* a penalty result that drops the penalty points
_calculate_penalty_rating_mut_zero(penalty_type) ==
    [base_points |-> 0, speed_bonus |-> 0, quality_multiplier |-> Rat(1, 1),
     total_points |-> 0, time_ratio |-> Rat(1, 1), penalty_type |-> penalty_type,
     calculation_breakdown |-> [penalty_applied |-> penalty_type, penalty_points |-> 0]]

_calculate_penalty_rating(penalty_type) ==
    LET penalty_points == Get(PENALTIES, penalty_type, 0)
    IN  [base_points |-> 0,
         speed_bonus |-> 0,
         quality_multiplier |-> Rat(1, 1),
         total_points |-> penalty_points,
         time_ratio |-> Rat(1, 1),
         penalty_type |-> penalty_type,
         calculation_breakdown |->
             [penalty_applied |-> penalty_type, penalty_points |-> penalty_points]]

\* the band test written min < ratio <= max: closed at the wrong end
InBand_mut_closed_above(band, time_ratio) ==
    RatLt(band.min_ratio, time_ratio) /\ RatLe(time_ratio, band.max_ratio)

\* min_ratio <= time_ratio < max_ratio
InBand(band, time_ratio) ==
    RatLe(band.min_ratio, time_ratio) /\ RatLt(time_ratio, band.max_ratio)

\* the first band, in the table's order, that holds the ratio; 0 when none does
_get_speed_bonus(time_ratio) ==
    LET hits == {i \in 1..Len(SPEED_BONUSES) : InBand(SPEED_BONUSES[i], time_ratio)}
    IN  IF hits = {} THEN 0 ELSE SPEED_BONUSES[Min(hits)].bonus

_get_speed_category(time_ratio) ==
    LET hits == {i \in 1..Len(SPEED_BONUSES) : InBand(SPEED_BONUSES[i], time_ratio)}
    IN  IF hits = {} THEN "poor" ELSE SPEED_BONUSES[Min(hits)].category

\* The standard scorer's body. Its callers are in src/ (rating_calculator.py:160,
\* views.py:292); its definition is not, so it is written from spec.md 4.1.
\* llm_score is None or Some(q), q on the 1-10 scale.
calculate_incident_rating_with_llm(time_limit_minutes, actual_time_minutes, solution_type, severity, was_successful, was_escalated, was_abandoned, llm_score, llm_is_correct) ==
    IF was_abandoned THEN _calculate_penalty_rating("give_up")
    ELSE IF ~was_successful /\ actual_time_minutes >= time_limit_minutes
         THEN _calculate_penalty_rating("timeout")
    ELSE IF was_escalated THEN _calculate_penalty_rating("escalation")
    ELSE
    LET base_points == Get(SEVERITY_WEIGHTS, severity, 50)
        time_ratio == IF time_limit_minutes > 0
                      THEN TrueDiv(actual_time_minutes, time_limit_minutes)
                      ELSE Rat(1, 1)
        speed_bonus == _get_speed_bonus(time_ratio)
        type_multiplier == Get(QUALITY_MULTIPLIERS, solution_type, Rat(1, 1))
        quality_multiplier ==
            IF llm_score = None THEN type_multiplier
            ELSE RatMul(type_multiplier, Rat(2 * llm_score[1], 10))
    IN  [base_points |-> base_points,
         speed_bonus |-> speed_bonus,
         quality_multiplier |-> quality_multiplier,
         total_points |-> RoundHalfEven((base_points + speed_bonus) * quality_multiplier.num,
                                        quality_multiplier.den),
         time_ratio |-> time_ratio,
         calculation_breakdown |->
             [severity |-> severity,
              time_limit |-> time_limit_minutes,
              actual_time |-> actual_time_minutes,
              solution_type |-> solution_type,
              speed_category |-> _get_speed_category(time_ratio),
              llm_score |-> llm_score,
              llm_is_correct |-> llm_is_correct]]

\* the backward-compatible entry point: no external quality score
calculate_incident_rating(time_limit_minutes, actual_time_minutes, solution_type, severity, was_successful, was_escalated, was_abandoned) ==
    calculate_incident_rating_with_llm(time_limit_minutes, actual_time_minutes, solution_type,
                                       severity, was_successful, was_escalated, was_abandoned,
                                       None, None)

(***************************************************************************)
(* RatingCalculator: the rating aggregator                                 *)
(***************************************************************************)
\* round(points_change * factor) as the float arithmetic computes it. The
\* factors 1.0, 0.8 and 0.5 give the exact product's round-half-even. The
\* double nearest 0.7 lies below 0.7, so a product that is exactly k + 1/2
\* is computed either as k + 1/2 (and rounds to even) or as the double just
\* below it (and rounds to k): the latter when the product's mantissa is
\* above 1.75, that is when 2|p| > 5 * 2^e with 2^e <= 0.7|p| < 2^(e+1).
RoundFloatProduct(points_change, factor) ==
    LET p == Abs(points_change)
        k == (7 * p) \div 10
    IN  IF factor = Rat(7, 10) /\ (7 * p) % 10 = 5 /\ 2 * p > 5 * Pow2Floor(k)
        THEN IF points_change > 0 THEN k ELSE -k
        ELSE RoundHalfEven(points_change * factor.num, factor.den)

\* thresholds tested with > instead of >=
smoothing_factor_mut_gt(current_rating) ==
    IF current_rating > 1400 THEN Rat(5, 10)
    ELSE IF current_rating > 1200 THEN Rat(7, 10)
    ELSE IF current_rating > 1000 THEN Rat(8, 10)
    ELSE Rat(10, 10)

smoothing_factor(current_rating) ==
    IF current_rating >= 1400 THEN Rat(5, 10)
    ELSE IF current_rating >= 1200 THEN Rat(7, 10)
    ELSE IF current_rating >= 1000 THEN Rat(8, 10)
    ELSE Rat(10, 10)

_apply_rating_smoothing(points_change, current_rating) ==
    RoundFloatProduct(points_change, smoothing_factor(current_rating))

PyMax(a, b) == IF a >= b THEN a ELSE b

PyMin(a, b) == IF a <= b THEN a ELSE b

\* a clamp that forgot the lower bound
clamp_rating_mut_no_lower(rating) == PyMin(1600, rating)

\* a clamp that forgot the upper bound
clamp_rating_mut_no_upper(rating) == PyMax(800, rating)

\* max(800, min(1600, rating))
clamp_rating(rating) == PyMax(800, PyMin(1600, rating))

\* result.get("total_points", 0)
points_of(result) == Get(result, "total_points", 0)

\* the results with total_points > 0, as a count
count_successful(incident_results) ==
    Cardinality({i \in 1..Len(incident_results) : points_of(incident_results[i]) > 0})

\* a timing that keeps every result whose breakdown has actual_time
resolution_times_mut_actual_only(incident_results) ==
    LET breakdown(i) == Get(incident_results[i], "calculation_breakdown", [x \in {} |-> 0])
        F[i \in 0..Len(incident_results)] ==
            IF i = 0 THEN <<>>
            ELSE IF "actual_time" \in DOMAIN breakdown(i)
                 THEN Append(F[i - 1], breakdown(i).actual_time)
            ELSE F[i - 1]
    IN  F[Len(incident_results)]

\* the actual_time of every result whose breakdown has actual_time and time_limit
resolution_times(incident_results) ==
    LET breakdown(i) == Get(incident_results[i], "calculation_breakdown", [x \in {} |-> 0])
        kept == {i \in 1..Len(incident_results) :
                    /\ "actual_time" \in DOMAIN breakdown(i)
                    /\ "time_limit" \in DOMAIN breakdown(i)}
        F[i \in 0..Len(incident_results)] ==
            IF i = 0 THEN <<>>
            ELSE IF i \in kept THEN Append(F[i - 1], breakdown(i).actual_time)
            ELSE F[i - 1]
    IN  F[Len(incident_results)]

\* skill ratings with a wrong debugging bonus
_calculate_skill_ratings_mut_bonus(incident_results) ==
    IF incident_results = <<>>
    THEN [debugging_skill |-> 800, system_design |-> 800,
          incident_response |-> 800, communication |-> 800]
    ELSE
    LET n == Len(incident_results)
        s == count_successful(incident_results)
        skill(bonus) == RoundHalfEven(800 * n + 600 * s + bonus * s, n)
    IN  [debugging_skill   |-> skill(60),
         system_design     |-> skill(30),
         incident_response |-> skill(80),
         communication     |-> skill(20)]

\* the skill ratings; the exact rational form equals the float computation
\* for every history shorter than 28 results
_calculate_skill_ratings(incident_results) ==
    IF incident_results = <<>>
    THEN [debugging_skill |-> 800, system_design |-> 800,
          incident_response |-> 800, communication |-> 800]
    ELSE
    LET n == Len(incident_results)
        s == count_successful(incident_results)
        skill(bonus) == RoundHalfEven(800 * n + 600 * s + bonus * s, n)
    IN  [debugging_skill   |-> skill(50),
         system_design     |-> skill(30),
         incident_response |-> skill(80),
         communication     |-> skill(20)]

\* an empty-history result that clamps the rating it returns
update_user_rating_empty_mut_clamped(current_rating) ==
    [new_rating |-> clamp_rating(current_rating), rating_change |-> 0,
     session_performance |-> [x \in {} |-> 0]]

\* lines 225-230: what an empty incident_results returns
update_user_rating_empty(current_rating) ==
    [new_rating |-> current_rating, rating_change |-> 0,
     session_performance |-> [x \in {} |-> 0]]

update_user_rating(current_rating, incident_results) ==
    IF incident_results = <<>> THEN update_user_rating_empty(current_rating)
    ELSE
    LET total_points == SumSeq([i \in 1..Len(incident_results) |-> points_of(incident_results[i])])
        successful_incidents == count_successful(incident_results)
        total_attempts == Len(incident_results)
        times == resolution_times(incident_results)
        rating_change == _apply_rating_smoothing(total_points, current_rating)
    IN  [new_rating |-> clamp_rating(current_rating + rating_change),
         rating_change |-> rating_change,
         total_points_earned |-> total_points,
         success_rate |-> Rat(successful_incidents, total_attempts),
         average_resolution_time |->
             IF times = <<>> THEN Rat(0, 1) ELSE Rat(SumSeq(times), Len(times)),
         skill_ratings |-> _calculate_skill_ratings(incident_results),
         session_performance |->
             [total_incidents |-> total_attempts,
              successful_incidents |-> successful_incidents,
              failed_incidents |-> total_attempts - successful_incidents,
              incident_results |-> incident_results]]

(***************************************************************************)
(* RatingCalculator: category and percentile of a rating                   *)
(***************************************************************************)
\* the bands whose inclusive [min_rating, max_rating] holds the rating
CategoriesHolding(rating) ==
    {i \in 1..Len(RATING_CATEGORIES) :
        RATING_CATEGORIES[i].min_rating <= rating /\ rating <= RATING_CATEGORIES[i].max_rating}

\* the first such band in the table's order; "junior" when no band holds it
get_rating_category(rating) ==
    IF CategoriesHolding(rating) = {} THEN "junior"
    ELSE RATING_CATEGORIES[Min(CategoriesHolding(rating))].category

\* a step function with a wrong first threshold
get_rating_percentile_mut_1450(rating) ==
    IF rating >= 1500 THEN Rat(95, 1)
    ELSE IF rating >= 1450 THEN Rat(85, 1)
    ELSE IF rating >= 1300 THEN Rat(70, 1)
    ELSE IF rating >= 1200 THEN Rat(50, 1)
    ELSE IF rating >= 1100 THEN Rat(30, 1)
    ELSE IF rating >= 1000 THEN Rat(15, 1)
    ELSE IF rating >= 900 THEN Rat(5, 1)
    ELSE Rat(1, 1)

\* the floats 95.0 ... 1.0
get_rating_percentile(rating) ==
    IF rating >= 1500 THEN Rat(95, 1)
    ELSE IF rating >= 1400 THEN Rat(85, 1)
    ELSE IF rating >= 1300 THEN Rat(70, 1)
    ELSE IF rating >= 1200 THEN Rat(50, 1)
    ELSE IF rating >= 1100 THEN Rat(30, 1)
    ELSE IF rating >= 1000 THEN Rat(15, 1)
    ELSE IF rating >= 900 THEN Rat(5, 1)
    ELSE Rat(1, 1)

(***************************************************************************)
(* RatingCalculator: the rating report                                     *)
(***************************************************************************)
\* the bands whose max_rating the rating is below or at
CategoriesAbove_mut_le(rating) ==
    {i \in 1..Len(RATING_CATEGORIES) : rating <= RATING_CATEGORIES[i].max_rating}

\* the bands whose max_rating the rating is below
CategoriesAbove(rating) ==
    {i \in 1..Len(RATING_CATEGORIES) : rating < RATING_CATEGORIES[i].max_rating}

\* the max_rating of the first such band in the table's order, else 1600
_get_next_threshold(rating) ==
    IF CategoriesAbove(rating) = {} THEN 1600
    ELSE RATING_CATEGORIES[Min(CategoriesAbove(rating))].max_rating

\* a distance that counts the step over the band's upper bound
_get_points_to_next_category_mut_step(rating) ==
    PyMax(0, _get_next_threshold(rating) + 1 - rating)

_get_points_to_next_category(rating) ==
    PyMax(0, _get_next_threshold(rating) - rating)

\* a slice that keeps every older result
older_3_of_mut_all(recent_incidents) ==
    SubSeq(recent_incidents, 4, Len(recent_incidents))

\* recent_incidents[3:6] when there are 6 or more, recent_incidents[3:] otherwise
older_3_of(recent_incidents) ==
    IF Len(recent_incidents) >= 6 THEN SubSeq(recent_incidents, 4, 6)
    ELSE SubSeq(recent_incidents, 4, Len(recent_incidents))

\* the empty list stands for None as well: both are falsy at line 391
_analyze_recent_performance(recent_incidents) ==
    IF recent_incidents = <<>> THEN None
    ELSE
        LET total_incidents == Len(recent_incidents)
            successful == count_successful(recent_incidents)
            recent_3 == Take(recent_incidents, 3)
            older_3 == older_3_of(recent_incidents)
            recent_success_rate == TrueDiv(count_successful(recent_3), Len(recent_3))
            older_success_rate ==
                IF older_3 # <<>> THEN TrueDiv(count_successful(older_3), Len(older_3))
                ELSE Rat(0, 1)
            trend ==
                IF total_incidents >= 3
                THEN IF RatLt(older_success_rate, recent_success_rate) THEN "improving"
                     ELSE IF RatLt(recent_success_rate, older_success_rate) THEN "declining"
                     ELSE "stable"
                ELSE "insufficient_data"
        IN  Some([total_incidents |-> total_incidents,
                  success_rate |-> TrueDiv(successful, total_incidents),
                  trend |-> trend,
                  average_points_per_incident |->
                      TrueDiv(SumSeq([i \in 1..total_incidents |-> points_of(recent_incidents[i])]),
                              total_incidents)])

\* RATING_CATEGORIES[category] of a category of the table: the (min, max) pair
rating_range_of(category) ==
    LET i == CHOOSE j \in 1..Len(RATING_CATEGORIES) : RATING_CATEGORIES[j].category = category
    IN  <<RATING_CATEGORIES[i].min_rating, RATING_CATEGORIES[i].max_rating>>

\* the parameter user_rating is written rating here
generate_rating_report(rating, recent_incidents) ==
    [current_rating |-> rating,
     category |-> get_rating_category(rating),
     percentile |-> get_rating_percentile(rating),
     rating_range |-> rating_range_of(get_rating_category(rating)),
     next_category_threshold |-> _get_next_threshold(rating),
     points_to_next_category |-> _get_points_to_next_category(rating),
     recent_performance |->
         IF recent_incidents # <<>> THEN _analyze_recent_performance(recent_incidents)
         ELSE None]

(***************************************************************************)
(* Bounds and input sets                                                   *)
(***************************************************************************)
MaxTime == 5

MaxResults == 3

MaxIncidents == 2

Severities == {"P0", "P1", "P2", "P3", "P9"}

SolutionTypes == {"root_cause", "workaround", "escalation", "abandonment", "unclear"}

TimeLimits == {-1, 0, 4, 10, 30}

ActualTimes == (0..MaxTime) \cup {7, 31}

\* what a grader supplies: a quality score on the 1-10 scale with its verdict, or nothing
QualityGrades ==
    { [llm_score |-> None,     llm_is_correct |-> None],
      [llm_score |-> Some(1),  llm_is_correct |-> Some(FALSE)],
      [llm_score |-> Some(5),  llm_is_correct |-> Some(FALSE)],
      [llm_score |-> Some(10), llm_is_correct |-> Some(TRUE)] }

\* scores on the 0-100 scale
GroqScores == {0, 49, 50, 79, 80, 100}

CurrentRatings == {-100, 0, 799, 800, 999, 1000, 1199, 1200, 1399, 1400, 1500, 1600, 1601, 5000}

\* incident results as the callers build them, and malformed ones
ResultSamples ==
    { [total_points |-> 300,
       calculation_breakdown |-> [severity |-> "P0", time_limit |-> 30, actual_time |-> 7,
                                  solution_type |-> "root_cause"]],
      [total_points |-> 45,
       calculation_breakdown |-> [severity |-> "P1", time_limit |-> 30, actual_time |-> 15,
                                  solution_type |-> "workaround"]],
      [total_points |-> -20,
       calculation_breakdown |-> [penalty_applied |-> "give_up", penalty_points |-> -20]],
      [total_points |-> 100],
      [total_points |-> 1000000],
      [total_points |-> -1000000],
      [calculation_breakdown |-> [actual_time |-> 4]] }

ResultLists == UNION {[1..n -> ResultSamples] : n \in 0..MaxResults}

ScoreArgs ==
    [time_limit_minutes : TimeLimits, actual_time_minutes : ActualTimes,
     solution_type : SolutionTypes, severity : Severities,
     was_successful : BOOLEAN, was_escalated : BOOLEAN, was_abandoned : BOOLEAN]

ScoreCalls ==
    {[fn |-> "calculate_incident_rating", args |-> a] : a \in ScoreArgs}
    \cup {[fn |-> "calculate_incident_rating_with_llm",
           args |-> [time_limit_minutes |-> a.time_limit_minutes,
                     actual_time_minutes |-> a.actual_time_minutes,
                     solution_type |-> a.solution_type, severity |-> a.severity,
                     was_successful |-> a.was_successful, was_escalated |-> a.was_escalated,
                     was_abandoned |-> a.was_abandoned,
                     llm_score |-> g.llm_score, llm_is_correct |-> g.llm_is_correct]] :
          a \in ScoreArgs, g \in QualityGrades}
    \cup {[fn |-> "calculate_rating_with_groq_score", args |-> a] :
          a \in [llm_score : GroqScores, time_spent_minutes : ActualTimes,
                 time_limit_minutes : TimeLimits, severity : Severities]}

UpdateCalls ==
    {[fn |-> "update_user_rating", args |-> a] :
          a \in [current_rating : CurrentRatings, incident_results : ResultLists]}

\* how far below 800 and above 1600 the ratings asked about reach
RatingMargin == 50

RatingInputs == (800 - RatingMargin)..(1600 + RatingMargin)

ReportCalls ==
    {[fn |-> f, args |-> [rating |-> rating]] :
        f \in {"get_rating_category", "get_rating_percentile"}, rating \in RatingInputs}

\* how many recent results a report is asked to analyse
MaxRecent == 7

\* a solved incident, a penalised one, and a result without total_points
PerformanceSamples == {[total_points |-> 45], [total_points |-> -10], [penalty_applied |-> "timeout"]}

PerformanceLists == UNION {[1..n -> PerformanceSamples] : n \in 0..MaxRecent}

\* the ratings whose reports are asked with a history
HistoryRatings == {800, 999, 1250, 1600}

GenerateReportCalls ==
    {[fn |-> "generate_rating_report", args |-> [user_rating |-> rating, recent_incidents |-> <<>>]] :
        rating \in RatingInputs}
    \cup {[fn |-> "generate_rating_report", args |-> [user_rating |-> rating, recent_incidents |-> l]] :
        rating \in HistoryRatings, l \in PerformanceLists}

NoCall == [fn |-> "none"]

Pending == [pending |-> TRUE]

Returned == ~("pending" \in DOMAIN ret)

(***************************************************************************)
(* The resolve flow: persisted rows and requests                           *)
(***************************************************************************)
\* the resolve requests of one user, served concurrently
Requests == {"r1", "r2"}

\* a request not sent yet
IdleRequest == [pc |-> "idle"]

\* a request answered with this error status: it never saves the rating
Refused(status) == [pc |-> "done", status |-> status]

\* a dict that keeps insertion order: a sequence of [key, value]
DictHas(d, key) == \E i \in 1..Len(d) : d[i].key = key

DictGet(d, key) == d[CHOOSE i \in 1..Len(d) : d[i].key = key].value

DictSet(d, key, value) ==
    IF DictHas(d, key)
    THEN [i \in 1..Len(d) |-> IF d[i].key = key THEN [key |-> key, value |-> value] ELSE d[i]]
    ELSE Append(d, [key |-> key, value |-> value])

DictDel(d, key) ==
    LET kept(e) == e.key # key
    IN  SelectSeq(d, kept)

DictKeys(d) == [i \in 1..Len(d) |-> d[i].key]

\* the caller is between two calls; what its last call was and returned
Returns(fn, incident_id, result) ==
    [op |-> "idle", fn |-> fn, incident_id |-> incident_id, result |-> result]

\* TimerManager.__init__, before any call
TimerManagerInit ==
    /\ active_timers = <<>>
    /\ timer_callbacks = <<>>
    /\ timer_infos = <<>>
    /\ timer_threads = <<>>
    /\ now = 0
    /\ main = Returns("none", "", None)
    /\ invoked = <<>>

FlowInit ==
    /\ user_rating = None
    /\ attempts = <<>>
    /\ incidents = <<>>
    /\ req = [r \in Requests |-> IdleRequest]

flow_vars == <<user_rating, attempts, incidents, req>>

(***************************************************************************)
(* The pure entry points, called on drawn arguments                        *)
(***************************************************************************)
ScoreInit ==
    /\ call \in ScoreCalls
    /\ ret = Pending
    /\ FlowInit
    /\ TimerManagerInit

UpdateInit ==
    /\ call \in UpdateCalls
    /\ ret = Pending
    /\ FlowInit
    /\ TimerManagerInit

CallIncidentRating ==
    /\ call.fn = "calculate_incident_rating"
    /\ ~Returned
    /\ ret' = calculate_incident_rating(
                  call.args.time_limit_minutes, call.args.actual_time_minutes,
                  call.args.solution_type, call.args.severity, call.args.was_successful,
                  call.args.was_escalated, call.args.was_abandoned)
    /\ UNCHANGED <<call, flow_vars, timer_vars>>

CallIncidentRatingWithLlm ==
    /\ call.fn = "calculate_incident_rating_with_llm"
    /\ ~Returned
    /\ ret' = calculate_incident_rating_with_llm(
                  call.args.time_limit_minutes, call.args.actual_time_minutes,
                  call.args.solution_type, call.args.severity, call.args.was_successful,
                  call.args.was_escalated, call.args.was_abandoned,
                  call.args.llm_score, call.args.llm_is_correct)
    /\ UNCHANGED <<call, flow_vars, timer_vars>>

CallGroqScore ==
    /\ call.fn = "calculate_rating_with_groq_score"
    /\ ~Returned
    /\ ret' = calculate_rating_with_groq_score(
                  call.args.llm_score, call.args.time_spent_minutes,
                  call.args.time_limit_minutes, call.args.severity)
    /\ UNCHANGED <<call, flow_vars, timer_vars>>

CallUpdateUserRating ==
    /\ call.fn = "update_user_rating"
    /\ ~Returned
    /\ ret' = update_user_rating(call.args.current_rating, call.args.incident_results)
    /\ UNCHANGED <<call, flow_vars, timer_vars>>

ScoreNext ==
    \/ CallIncidentRating
    \/ CallIncidentRatingWithLlm
    \/ CallGroqScore

ScoreSpec == ScoreInit /\ [][ScoreNext]_vars

UpdateNext == CallUpdateUserRating

UpdateSpec == UpdateInit /\ [][UpdateNext]_vars

ReportInit ==
    /\ call \in ReportCalls \cup GenerateReportCalls
    /\ ret = Pending
    /\ FlowInit
    /\ TimerManagerInit

CallGetRatingCategory ==
    /\ call.fn = "get_rating_category"
    /\ ~Returned
    /\ ret' = [category |-> get_rating_category(call.args.rating)]
    /\ UNCHANGED <<call, flow_vars, timer_vars>>

CallGetRatingPercentile ==
    /\ call.fn = "get_rating_percentile"
    /\ ~Returned
    /\ ret' = [percentile |-> get_rating_percentile(call.args.rating)]
    /\ UNCHANGED <<call, flow_vars, timer_vars>>

CallGenerateRatingReport ==
    /\ call.fn = "generate_rating_report"
    /\ ~Returned
    /\ ret' = generate_rating_report(call.args.user_rating, call.args.recent_incidents)
    /\ UNCHANGED <<call, flow_vars, timer_vars>>

ReportNext ==
    \/ CallGetRatingCategory
    \/ CallGetRatingPercentile
    \/ CallGenerateRatingReport

ReportSpec == ReportInit /\ [][ReportNext]_vars

(***************************************************************************)
(* Properties of the pure entry points (ScoreSpec, UpdateSpec, ReportSpec) *)
(***************************************************************************)
StandardCall == call.fn \in {"calculate_incident_rating", "calculate_incident_rating_with_llm"}

GroqCall == call.fn = "calculate_rating_with_groq_score"

UpdateCall == call.fn = "update_user_rating"

\* the external quality score of the pending standard call
CallQuality == IF call.fn = "calculate_incident_rating_with_llm" THEN call.args.llm_score ELSE None

IsTimeout(a) == ~a.was_successful /\ a.actual_time_minutes >= a.time_limit_minutes

\* the call took the standard formula, not one of the three penalties
StandardPath == StandardCall /\ Returned /\ ~("penalty_type" \in DOMAIN ret)

\* C1: for every current_rating, inside [800,1600] or not, and every non-empty
\* list of results, however large its point total, update_user_rating returns
\* a new_rating between 800 and 1600.
C1_NewRatingClamped ==
    (UpdateCall /\ Returned /\ call.args.incident_results # <<>>)
        => (800 <= ret.new_rating /\ ret.new_rating <= 1600)

C1_Witness ==
    /\ UpdateCall /\ Returned
    /\ call.args.current_rating = 5000
    /\ call.args.incident_results = <<[total_points |-> 1000000]>>
    /\ ret.rating_change = 1000000 \div 2
    /\ ret.new_rating = 1600

\* C4: an abandoned outcome scores exactly -20 whatever the severity, the
\* times, the solution type, the success and escalation flags and the quality
\* score; no base points, speed bonus or multiplier is applied.
C4_AbandonedIsMinus20 ==
    (StandardCall /\ Returned /\ call.args.was_abandoned)
        => /\ ret.total_points = -20
           /\ ret.base_points = 0
           /\ ret.speed_bonus = 0
           /\ RatEq(ret.quality_multiplier, Rat(1, 1))

C4_Witness ==
    /\ call.fn = "calculate_incident_rating_with_llm" /\ Returned
    /\ call.args.was_abandoned /\ call.args.was_successful /\ call.args.was_escalated
    /\ call.args.severity = "P0" /\ call.args.solution_type = "root_cause"
    /\ call.args.actual_time_minutes = 0 /\ call.args.time_limit_minutes = 30
    /\ call.args.llm_score = Some(10)
    /\ ret.total_points = -20

\* C5: classification is first match in the order abandoned, timeout,
\* escalated: a not-abandoned, unsuccessful outcome with actual >= limit
\* scores -10 even when it is escalated, and an escalated outcome that is
\* neither abandoned nor a timeout scores -5.
C5_FirstMatchOrder ==
    (StandardCall /\ Returned /\ ~call.args.was_abandoned)
        => /\ IsTimeout(call.args) => ret.total_points = -10
           /\ (call.args.was_escalated /\ ~IsTimeout(call.args)) => ret.total_points = -5

C5_Witness ==
    /\ StandardCall /\ Returned
    /\ ~call.args.was_abandoned /\ call.args.was_escalated /\ ~call.args.was_successful
    /\ call.args.actual_time_minutes = 31 /\ call.args.time_limit_minutes = 30
    /\ ret.total_points = -10

\* the claims' own tables, as the specification states them
StatedWeight(severity) ==
    CASE severity = "P0" -> 100 [] severity = "P1" -> 75
      [] severity = "P2" -> 50  [] severity = "P3" -> 25

\* twice the stated quality multiplier
StatedMultiplierDoubled(solution_type) ==
    CASE solution_type = "root_cause" -> 4 [] solution_type = "workaround" -> 2
      [] solution_type = "escalation" -> 1 [] solution_type = "abandonment" -> 0

\* the stated bands on actual/limit, limit > 0
StatedBonus(actual, limit) ==
    IF 4 * actual < limit THEN 50
    ELSE IF 2 * actual < limit THEN 30
    ELSE IF 4 * actual < 3 * limit THEN 15
    ELSE IF actual < limit THEN 5
    ELSE 0

StatedBonusOf(a) ==
    IF a.time_limit_minutes > 0 THEN StatedBonus(a.actual_time_minutes, a.time_limit_minutes) ELSE 0

\* C6: an outcome that is not abandoned, not a timeout and not escalated,
\* scored without an external quality score, earns
\* round((weight(severity) + speed_bonus) * multiplier(solution_type)), an
\* unsuccessful attempt under the limit included; P0, 7 of 30 minutes,
\* root_cause earns base 100, bonus 50, multiplier 2.0, total 300.
C6_StandardFormula ==
    (/\ StandardPath /\ CallQuality = None
     /\ call.args.severity \in {"P0", "P1", "P2", "P3"}
     /\ call.args.solution_type \in {"root_cause", "workaround", "escalation", "abandonment"})
        => /\ ret.base_points = StatedWeight(call.args.severity)
           /\ ret.total_points =
                  RoundHalfEven((StatedWeight(call.args.severity) + StatedBonusOf(call.args))
                                    * StatedMultiplierDoubled(call.args.solution_type), 2)
           /\ (/\ call.args.severity = "P0" /\ call.args.solution_type = "root_cause"
               /\ call.args.time_limit_minutes = 30 /\ call.args.actual_time_minutes = 7)
                  => /\ ret.base_points = 100 /\ ret.speed_bonus = 50
                     /\ RatEq(ret.quality_multiplier, Rat(2, 1))
                     /\ ret.total_points = 300

C6_Witness ==
    /\ StandardPath /\ CallQuality = None
    /\ call.args.severity = "P1" /\ call.args.solution_type = "escalation"
    /\ ~call.args.was_successful /\ ~call.args.was_escalated
    /\ call.args.time_limit_minutes = 4 /\ call.args.actual_time_minutes = 0
    /\ ret.total_points = 62

\* the bands of the table that hold the ratio
BandsHolding(time_ratio) ==
    {i \in 1..Len(SPEED_BONUSES) : InBand(SPEED_BONUSES[i], time_ratio)}

\* C7: the speed bonus is total on ratios >= 0 over the half-open bands
\* [0,1/4) 50, [1/4,1/2) 30, [1/2,3/4) 15, [3/4,1) 5, [1,inf) 0; exactly one
\* band holds each ratio, and a ratio on a boundary gets the bonus of the band
\* that starts there.
C7_SpeedBonusBands ==
    (StandardCall /\ call.args.time_limit_minutes > 0)
        => LET time_ratio == Rat(call.args.actual_time_minutes, call.args.time_limit_minutes)
           IN  /\ Cardinality(BandsHolding(time_ratio)) = 1
               /\ _get_speed_bonus(time_ratio) = StatedBonusOf(call.args)
               /\ StandardPath => ret.speed_bonus = StatedBonusOf(call.args)
               /\ RatEq(time_ratio, Rat(1, 4)) => _get_speed_bonus(time_ratio) = 30
               /\ RatEq(time_ratio, Rat(1, 2)) => _get_speed_bonus(time_ratio) = 15
               /\ RatEq(time_ratio, Rat(3, 4)) => _get_speed_bonus(time_ratio) = 5
               /\ RatEq(time_ratio, Rat(1, 1)) => _get_speed_bonus(time_ratio) = 0

C7_Witness ==
    /\ StandardPath
    /\ call.args.time_limit_minutes = 4 /\ call.args.actual_time_minutes = 1
    /\ ret.speed_bonus = 30
    /\ ret.calculation_breakdown.speed_category = "good"

\* the pending standard call's score with another actual time
ScoreWithTime(actual) ==
    calculate_incident_rating_with_llm(
        call.args.time_limit_minutes, actual, call.args.solution_type, call.args.severity,
        call.args.was_successful, call.args.was_escalated, call.args.was_abandoned,
        CallQuality, None)

\* C8: two outcomes that differ only in actual_time_minutes, a1 <= a2: the
\* points scored for a1 are at least the points scored for a2.
C8_Monotone ==
    (StandardCall /\ Returned)
        => \A a2 \in ActualTimes :
               call.args.actual_time_minutes <= a2
                   => ret.total_points >= ScoreWithTime(a2).total_points

C8_Witness ==
    /\ StandardPath
    /\ call.args.time_limit_minutes = 4 /\ call.args.actual_time_minutes = 1
    /\ call.args.solution_type = "workaround" /\ call.args.severity = "P2"
    /\ ret.total_points = 80
    /\ ScoreWithTime(2).total_points = 65

\* C9: an unrecognized severity is scored with the P2 values (weight 50 in
\* the standard mode, multiplier 1.0 in the alternate mode), an unrecognized
\* solution type with multiplier 1.0, and the call returns a result.
C9_UnknownEnumsDefault ==
    /\ (GroqCall /\ Returned /\ call.args.severity \notin {"P0", "P1", "P2", "P3"})
           => /\ ~Raised(ret)
              /\ RatEq(ret.severity_multiplier, Rat(1, 1))
              /\ ret.final_rating_change =
                     calculate_rating_with_groq_score(
                         call.args.llm_score, call.args.time_spent_minutes,
                         call.args.time_limit_minutes, "P2").final_rating_change
    /\ (StandardCall /\ Returned) => ~Raised(ret)
    /\ (StandardPath /\ call.args.severity \notin {"P0", "P1", "P2", "P3"})
           => ret.base_points = 50
    /\ (StandardPath /\ CallQuality = None
        /\ call.args.solution_type \notin {"root_cause", "workaround", "escalation", "abandonment"})
           => RatEq(ret.quality_multiplier, Rat(1, 1))

C9_Witness ==
    /\ GroqCall /\ Returned
    /\ call.args.severity = "P9" /\ call.args.llm_score = 80
    /\ call.args.time_spent_minutes = 2 /\ call.args.time_limit_minutes = 4
    /\ ret.final_rating_change = 37

\* C10: in both modes a time limit <= 0 causes no division error and the
\* time ratio is reported as 1.0, so the standard speed bonus is 0 and the
\* alternate-mode time multiplier is 1.0.
C10_DivisionGuard ==
    /\ (GroqCall /\ Returned /\ call.args.time_limit_minutes <= 0)
           => /\ ~Raised(ret)
              /\ RatEq(ret.time_ratio, Rat(1, 1))
              /\ RatEq(ret.time_multiplier, Rat(1, 1))
    /\ (StandardCall /\ Returned /\ call.args.time_limit_minutes <= 0)
           => /\ ~Raised(ret)
              /\ RatEq(ret.time_ratio, Rat(1, 1))
              /\ ret.speed_bonus = 0

C10_Witness ==
    /\ GroqCall /\ Returned
    /\ call.args.time_limit_minutes = 0 /\ call.args.time_spent_minutes = 0
    /\ call.args.llm_score = 80 /\ call.args.severity = "P2"
    /\ ret.final_rating_change = 25

\* C11: with an external quality score q on the 1-10 scale the standard
\* scorer's quality multiplier is multiplier(solution_type) * (q/10) * 2.0, a
\* factor between 0.2 and 2.0; q = 5 leaves the solution-type multiplier as it
\* is; total_points = round((base_points + speed_bonus) * that product).
C11_QualityScoreScales ==
    (/\ StandardPath /\ CallQuality # None
     /\ call.args.solution_type \in {"root_cause", "workaround", "escalation", "abandonment"})
        => LET q == CallQuality[1]
               doubled == StatedMultiplierDoubled(call.args.solution_type)
           IN  /\ RatLe(Rat(2, 10), Rat(2 * q, 10)) /\ RatLe(Rat(2 * q, 10), Rat(2, 1))
               /\ RatEq(ret.quality_multiplier, Rat(doubled * 2 * q, 20))
               /\ q = 5 => RatEq(ret.quality_multiplier, Rat(doubled, 2))
               /\ ret.total_points =
                      RoundHalfEven((ret.base_points + ret.speed_bonus) * doubled * 2 * q, 20)

\* P1 escalation-type fix at once, graded 1: (75 + 50) * 0.5 * 0.2 = 12.5, 12 points
C11_Witness ==
    /\ StandardPath /\ CallQuality = Some(1)
    /\ call.args.severity = "P1" /\ call.args.solution_type = "escalation"
    /\ call.args.time_limit_minutes = 4 /\ call.args.actual_time_minutes = 0
    /\ RatEq(ret.quality_multiplier, Rat(1, 10))
    /\ ret.total_points = 12

\* the alternate mode's base delta as the specification states it
StatedBaseDelta(llm_score) ==
    IF llm_score >= 80 THEN 25 ELSE IF llm_score >= 50 THEN 10 ELSE -15

\* the pending alternate-mode call returned a result on a positive time limit
GroqTimed == GroqCall /\ Returned /\ ~Raised(ret) /\ call.args.time_limit_minutes > 0

\* fast: ratio <= 0.5; slow: ratio > 0.75; high: score >= 80; medium: 50 <= score < 80
GroqFast == 2 * call.args.time_spent_minutes <= call.args.time_limit_minutes

GroqSlow == 4 * call.args.time_spent_minutes > 3 * call.args.time_limit_minutes

GroqHigh == call.args.llm_score >= 80

GroqMedium == call.args.llm_score >= 50 /\ call.args.llm_score < 80

\* C12 as stated: base delta +25 / +10 / -15 by the score thresholds 80 and 50;
\* time multiplier 1.5 for fast + high, 1.2 for fast + medium, 0.8 for slow +
\* medium and 1.0 in every other case.
C12_StatedTimeMultiplier ==
    GroqTimed
        => /\ ret.base_rating_change = StatedBaseDelta(call.args.llm_score)
           /\ RatEq(ret.time_multiplier,
                    IF GroqFast /\ GroqHigh THEN Rat(15, 10)
                    ELSE IF GroqFast /\ GroqMedium THEN Rat(12, 10)
                    ELSE IF GroqSlow /\ GroqMedium THEN Rat(8, 10)
                    ELSE Rat(10, 10))

\* C12, amended: base delta +25 / +10 / -15 by the score thresholds 80 and 50;
\* on a positive time limit the time multiplier is 1.5 for fast + high, 1.2 for
\* high with 0.5 < ratio <= 0.75, 1.2 for fast + medium, 0.8 for slow + medium
\* and 1.0 in every other case, always 1.0 for a score below 50; on a time
\* limit <= 0 it is 1.0.
C12_TimeMultiplier ==
    (GroqCall /\ Returned /\ ~Raised(ret))
        => /\ ret.base_rating_change = StatedBaseDelta(call.args.llm_score)
           /\ call.args.llm_score < 50 => RatEq(ret.time_multiplier, Rat(1, 1))
           /\ call.args.time_limit_minutes <= 0 => RatEq(ret.time_multiplier, Rat(1, 1))
           /\ GroqTimed
                 => RatEq(ret.time_multiplier,
                          IF GroqFast /\ GroqHigh THEN Rat(15, 10)
                          ELSE IF ~GroqSlow /\ GroqHigh THEN Rat(12, 10)
                          ELSE IF GroqFast /\ GroqMedium THEN Rat(12, 10)
                          ELSE IF GroqSlow /\ GroqMedium THEN Rat(8, 10)
                          ELSE Rat(10, 10))

\* a score of 80 after 7 of 10 minutes: neither fast nor slow, multiplier 1.2
C12_Witness ==
    /\ GroqTimed
    /\ call.args.llm_score = 80 /\ call.args.severity = "P2"
    /\ call.args.time_spent_minutes = 7 /\ call.args.time_limit_minutes = 10
    /\ RatEq(ret.time_multiplier, Rat(12, 10))
    /\ ret.final_rating_change = 30

\* the alternate mode's severity multiplier as the specification states it, in tenths
StatedSeverityTenths(severity) ==
    CASE severity = "P0" -> 15 [] severity = "P1" -> 12
      [] severity = "P2" -> 10 [] severity = "P3" -> 8

\* t is the exact rational n/d (d > 0) with its fraction dropped
IsTruncationOf(t, n, d) ==
    IF n >= 0 THEN t * d <= n /\ n < (t + 1) * d
    ELSE (t - 1) * d < n /\ n <= t * d

\* C13: in the alternate mode final_rating_change is base delta * time
\* multiplier * severity multiplier (P0 1.5, P1 1.2, P2 1.0, P3 0.8) truncated
\* toward zero, not rounded: -15 * 1.0 * 1.5 gives -22 and 10 * 1.2 * 1.2
\* gives 14; it has the sign of the base delta or is 0.
C13_TruncatedProduct ==
    (GroqCall /\ Returned /\ ~Raised(ret) /\ call.args.severity \in {"P0", "P1", "P2", "P3"})
        => LET tenths == StatedSeverityTenths(call.args.severity)
               n == ret.base_rating_change * ret.time_multiplier.num * tenths
               d == ret.time_multiplier.den * 10
           IN  /\ RatEq(ret.severity_multiplier, Rat(tenths, 10))
               /\ IsTruncationOf(ret.final_rating_change, n, d)
               /\ ret.final_rating_change * ret.base_rating_change >= 0
               /\ (/\ ret.base_rating_change = -15 /\ tenths = 15
                   /\ RatEq(ret.time_multiplier, Rat(1, 1))) => ret.final_rating_change = -22
               /\ (/\ ret.base_rating_change = 10 /\ tenths = 12
                   /\ RatEq(ret.time_multiplier, Rat(12, 10))) => ret.final_rating_change = 14

\* a poor answer on a P0 incident: -22.5 becomes -22
C13_Witness ==
    /\ GroqCall /\ Returned
    /\ call.args.llm_score = 49 /\ call.args.severity = "P0"
    /\ call.args.time_spent_minutes = 1 /\ call.args.time_limit_minutes = 4
    /\ ret.base_rating_change = -15
    /\ ret.final_rating_change = -22

\* the pending aggregator call was made with no result
EmptyCall == UpdateCall /\ Returned /\ call.args.incident_results = <<>>

\* C14: update_user_rating called with an empty incident_results returns
\* new_rating equal to current_rating and rating_change 0, and raises nothing.
C14_EmptyIsNoOp ==
    EmptyCall
        => /\ ~Raised(ret)
           /\ ret.new_rating = call.args.current_rating
           /\ ret.rating_change = 0

\* even a rating outside the bounds comes back as it went in
C14_Witness ==
    /\ EmptyCall
    /\ call.args.current_rating = 5000
    /\ ret.new_rating = 5000
    /\ ret.rating_change = 0

\* the fields of the aggregator's output
AggregatorFields ==
    {"new_rating", "rating_change", "total_points_earned", "success_rate",
     "average_resolution_time", "skill_ratings"}

\* C15: update_user_rating never raises, for empty or malformed input; for an
\* empty history the result reports the defaults, success_rate 0 and the
\* unchanged rating, and has every field of the aggregator's output, as the
\* result for a non-empty input has.
C15_EmptyReportsDefaults ==
    (UpdateCall /\ Returned)
        => /\ ~Raised(ret)
           /\ AggregatorFields \subseteq DOMAIN ret
           /\ call.args.incident_results = <<>>
                 => /\ ret.new_rating = call.args.current_rating
                    /\ RatEq(ret.success_rate, Rat(0, 1))

\* the pending aggregator call was made with at least one result
NonEmptyCall == UpdateCall /\ Returned /\ call.args.incident_results # <<>>

\* the smoothing factor as the specification states it, in tenths
StatedFactorTenths(current_rating) ==
    IF current_rating < 1000 THEN 10
    ELSE IF current_rating < 1200 THEN 8
    ELSE IF current_rating < 1400 THEN 7
    ELSE 5

\* the sum of total_points over the results, a result without the field counting 0
StatedTotalPoints(incident_results) ==
    SumSeq([i \in 1..Len(incident_results) |->
               IF "total_points" \in DOMAIN incident_results[i]
               THEN incident_results[i].total_points ELSE 0])

\* C16: rating_change is the sum of total_points over the results times the
\* factor chosen from current_rating before the update (1.0 below 1000, 0.8 in
\* [1000,1200), 0.7 in [1200,1400), 0.5 from 1400), rounded to a nearest
\* integer; current_rating 1500 with one result of 100 points gives
\* rating_change 50 and new_rating 1550.
C16_SmoothedChange ==
    NonEmptyCall
        => LET total == StatedTotalPoints(call.args.incident_results)
               tenths == StatedFactorTenths(call.args.current_rating)
           IN  /\ ret.total_points_earned = total
               /\ 2 * Abs(10 * ret.rating_change - total * tenths) <= 10
               /\ (/\ call.args.current_rating = 1500
                   /\ call.args.incident_results = <<[total_points |-> 100]>>)
                      => ret.rating_change = 50 /\ ret.new_rating = 1550

C16_Witness ==
    /\ NonEmptyCall
    /\ call.args.current_rating = 1500
    /\ call.args.incident_results = <<[total_points |-> 100]>>
    /\ ret.rating_change = 50
    /\ ret.new_rating = 1550

\* the fields of the breakdown of result i; none when the result has no breakdown
BreakdownFields(incident_results, i) ==
    IF "calculation_breakdown" \in DOMAIN incident_results[i]
    THEN DOMAIN incident_results[i].calculation_breakdown
    ELSE {}

\* ret.average_resolution_time is the mean of actual_time over the results in kept
IsMeanOver(kept) ==
    LET results == call.args.incident_results
        total == SumSeq([i \in 1..Len(results) |->
                            IF i \in kept THEN results[i].calculation_breakdown.actual_time
                            ELSE 0])
    IN  IF kept = {} THEN RatEq(ret.average_resolution_time, Rat(0, 1))
        ELSE RatEq(ret.average_resolution_time, Rat(total, Cardinality(kept)))

\* C17 as stated: average_resolution_time is the mean of actual_time over
\* exactly the results whose breakdown carries actual_time, and 0 when none does.
C17_StatedAverage ==
    NonEmptyCall
        => IsMeanOver({i \in 1..Len(call.args.incident_results) :
                          "actual_time" \in BreakdownFields(call.args.incident_results, i)})

\* C17, amended: average_resolution_time is the mean of actual_time over
\* exactly the results whose breakdown carries both actual_time and time_limit,
\* and 0 when no result carries both.
C17_AverageResolutionTime ==
    NonEmptyCall
        => IsMeanOver({i \in 1..Len(call.args.incident_results) :
                          {"actual_time", "time_limit"}
                              \subseteq BreakdownFields(call.args.incident_results, i)})

\* a result with actual_time 4 and no time_limit is left out: the mean is 7, not 5.5
C17_Witness ==
    /\ NonEmptyCall
    /\ Len(call.args.incident_results) = 2
    /\ call.args.incident_results[1] = [calculation_breakdown |-> [actual_time |-> 4]]
    /\ BreakdownFields(call.args.incident_results, 2) =
           {"severity", "time_limit", "actual_time", "solution_type"}
    /\ call.args.incident_results[2].calculation_breakdown.actual_time = 7
    /\ RatEq(ret.average_resolution_time, Rat(7, 1))

CategoryCall == call.fn = "get_rating_category" /\ Returned

PercentileCall == call.fn = "get_rating_percentile" /\ Returned

\* the bands as the specification states them
StatedCategory(rating) ==
    IF 800 <= rating /\ rating <= 999 THEN "junior"
    ELSE IF 1000 <= rating /\ rating <= 1199 THEN "mid"
    ELSE IF 1200 <= rating /\ rating <= 1399 THEN "senior"
    ELSE IF 1400 <= rating /\ rating <= 1600 THEN "staff"
    ELSE "junior"

\* the declared order of the categories
CategoryRank(category) ==
    CASE category = "junior" -> 1 [] category = "mid" -> 2
      [] category = "senior" -> 3 [] category = "staff" -> 4

\* C19: get_rating_category returns the first band, in the order junior, mid,
\* senior, staff, whose inclusive [min,max] holds the rating (800-999,
\* 1000-1199, 1200-1399, 1400-1600); every integer rating in [800,1600] is in
\* exactly one band and over those ratings the category never goes down as the
\* rating goes up; a rating outside every band yields "junior".
C19_CategoryBands ==
    CategoryCall
        => LET rating == call.args.rating
           IN  /\ ret.category = StatedCategory(rating)
               /\ (800 <= rating /\ rating <= 1600)
                     => /\ Cardinality(CategoriesHolding(rating)) = 1
                        /\ ret.category =
                               RATING_CATEGORIES[Min(CategoriesHolding(rating))].category
               /\ (800 <= rating /\ rating < 1600)
                     => CategoryRank(ret.category)
                            <= CategoryRank(get_rating_category(rating + 1))
               /\ (rating < 800 \/ rating > 1600)
                     => CategoriesHolding(rating) = {} /\ ret.category = "junior"

\* the first rating of the mid band
C19_Witness ==
    /\ CategoryCall
    /\ call.args.rating = 1000
    /\ ret.category = "mid"
    /\ get_rating_category(999) = "junior"
    /\ get_rating_category(1601) = "junior"

\* the step function as the specification states it
StatedPercentile(rating) ==
    IF rating >= 1500 THEN 95
    ELSE IF rating >= 1400 THEN 85
    ELSE IF rating >= 1300 THEN 70
    ELSE IF rating >= 1200 THEN 50
    ELSE IF rating >= 1100 THEN 30
    ELSE IF rating >= 1000 THEN 15
    ELSE IF rating >= 900 THEN 5
    ELSE 1

\* C20: get_rating_percentile is the step function >= 1500: 95, >= 1400: 85,
\* >= 1300: 70, >= 1200: 50, >= 1100: 30, >= 1000: 15, >= 900: 5, else 1; it
\* never goes down as the rating goes up; for ratings in [800,1600] it is at
\* least 85 exactly when the category is staff and at least 50 exactly when
\* the category is senior or staff.
C20_PercentileSteps ==
    PercentileCall
        => LET rating == call.args.rating
           IN  /\ RatEq(ret.percentile, Rat(StatedPercentile(rating), 1))
               /\ RatLe(ret.percentile, get_rating_percentile(rating + 1))
               /\ (800 <= rating /\ rating <= 1600)
                     => /\ RatLe(Rat(85, 1), ret.percentile)
                               <=> get_rating_category(rating) = "staff"
                        /\ RatLe(Rat(50, 1), ret.percentile)
                               <=> get_rating_category(rating) \in {"senior", "staff"}

\* the first rating of the staff band
C20_Witness ==
    /\ PercentileCall
    /\ call.args.rating = 1400
    /\ RatEq(ret.percentile, Rat(85, 1))
    /\ get_rating_category(1400) = "staff"
    /\ RatEq(get_rating_percentile(1399), Rat(70, 1))

ReportCall == call.fn = "generate_rating_report" /\ Returned

\* the max bound of the first of junior, mid, senior, staff whose max exceeds the rating
StatedThreshold(rating) ==
    IF 999 > rating THEN 999
    ELSE IF 1199 > rating THEN 1199
    ELSE IF 1399 > rating THEN 1399
    ELSE 1600

\* C21: for every rating in [800, 1600] the report's next_category_threshold is
\* the max bound of the first category, in the order junior, mid, senior,
\* staff, whose max exceeds the rating, and 1600 at rating 1600;
\* points_to_next_category is max(0, next_category_threshold - rating) and is
\* never negative; rating 1250 gives threshold 1399 and 149 points.
C21_NextThreshold ==
    (ReportCall /\ call.args.user_rating \in 800..1600) =>
        LET rating == call.args.user_rating
            distance == ret.next_category_threshold - rating
        IN  /\ ret.next_category_threshold = StatedThreshold(rating)
            /\ (rating = 1600 => ret.next_category_threshold = 1600)
            /\ ret.points_to_next_category = (IF distance > 0 THEN distance ELSE 0)
            /\ ret.points_to_next_category >= 0
            /\ (rating = 1250 =>
                   ret.next_category_threshold = 1399 /\ ret.points_to_next_category = 149)

\* a report for rating 1250 came back with threshold 1399 and 149 points
C21_Witness ==
    /\ ReportCall
    /\ call.args.user_rating = 1250
    /\ ret.next_category_threshold = 1399
    /\ ret.points_to_next_category = 149

\* where the reported points take the rating
ReportTarget == call.args.user_rating + ret.points_to_next_category

\* the rating is the upper bound of its own band
AtBandMax(rating) == rating \in {999, 1199, 1399}

StatedSuccessesAt(results, S) ==
    Cardinality({i \in S : "total_points" \in DOMAIN results[i] /\ results[i].total_points > 0})

\* the stated trend of n >= 3 results, most recent first: the share among
\* the first three against the share among the up to three after them, the
\* share of no results counting as 0
StatedTrend(results) ==
    LET n == Len(results)
        previous == 4..(IF n >= 6 THEN 6 ELSE n)
        recent == StatedSuccessesAt(results, 1..3) * Cardinality(previous)
        older == StatedSuccessesAt(results, previous) * 3
    IN  IF previous = {}
        THEN IF StatedSuccessesAt(results, 1..3) > 0 THEN "improving" ELSE "stable"
        ELSE IF recent > older THEN "improving"
        ELSE IF recent < older THEN "declining"
        ELSE "stable"

\* the trend the report carries, if any
ReportedTrend ==
    IF ret.recent_performance = None THEN "absent" ELSE ret.recent_performance[1].trend

\* C22 as stated: the trend in the rating report is "insufficient_data" when
\* fewer than 3 results are supplied; with 3 or more results it is
\* "improving", "declining" or "stable" by comparing the success rate of the
\* 3 most recent results with that of the previous 3, or of the fewer
\* previous results that exist.
C22_StatedTrend ==
    ReportCall =>
        LET results == call.args.recent_incidents
        IN  IF Len(results) < 3 THEN ReportedTrend = "insufficient_data"
            ELSE ReportedTrend = StatedTrend(results)

\* C22, amended: with no results supplied the report carries no trend at
\* all (recent_performance is None); with 1 or 2 results the trend is
\* "insufficient_data"; with 3 or more results, most recent first, the
\* success rate (share with total_points > 0) of the 3 most recent results
\* is compared with that of the previous 3 results, or of the fewer previous
\* results that exist, taken as 0 when none exists, and the trend is
\* "improving" when the recent rate is higher, "declining" when lower and
\* "stable" when equal.
C22_Trend ==
    ReportCall =>
        LET results == call.args.recent_incidents
        IN  CASE Len(results) = 0 -> ret.recent_performance = None
              [] Len(results) \in {1, 2} -> ReportedTrend = "insufficient_data"
              [] OTHER -> ReportedTrend = StatedTrend(results)

\* seven results: three failures after three successes after one failure,
\* the seventh (a success) being outside the comparison
C22_Witness ==
    /\ ReportCall
    /\ Len(call.args.recent_incidents) = 7
    /\ StatedSuccessesAt(call.args.recent_incidents, 1..3) = 0
    /\ StatedSuccessesAt(call.args.recent_incidents, 4..6) = 3
    /\ StatedSuccessesAt(call.args.recent_incidents, {7}) = 1
    /\ ReportedTrend = "declining"

\* C29: for every call of update_user_rating with a non-empty history,
\* new_rating - current_rating equals the returned rating_change whenever
\* 800 <= current_rating + rating_change <= 1600; when the sum falls outside
\* that range the returned rating_change is the unclamped smoothed value and
\* differs from the change applied to the rating.
C29_ReportedChange ==
    NonEmptyCall
        => LET current_rating == call.args.current_rating
               unclamped == current_rating + ret.rating_change
               applied == ret.new_rating - current_rating
               total == StatedTotalPoints(call.args.incident_results)
               tenths == StatedFactorTenths(current_rating)
           IN  IF 800 <= unclamped /\ unclamped <= 1600
               THEN applied = ret.rating_change
               ELSE /\ 2 * Abs(10 * ret.rating_change - total * tenths) <= 10
                    /\ ret.new_rating \in {800, 1600}
                    /\ applied # ret.rating_change

\* at 1600 a history worth 300 points reports +150 and applies 0
C29_Witness ==
    /\ NonEmptyCall
    /\ call.args.current_rating = 1600
    /\ ret.rating_change = 150
    /\ ret.new_rating = 1600

(***************************************************************************)
(* The resolve flow: GenerateIncidentView, UserRatingView and the steps of *)
(* ResolveIncidentView.post, one action per database operation             *)
(***************************************************************************)
\* incidents as the generator's templates make them
IncidentTemplates ==
    { [severity |-> "P0", time_limit_minutes |-> 30],
      [severity |-> "P1", time_limit_minutes |-> 30] }

\* what the request body asks (solution_type, was_successful) and what
\* happens in llm_grader.grade_incident_response: the language model answers
\* with a grading, or the call to it fails (the body then says how much text
\* the user sent), or the grader itself raises
ResolveInputs ==
    { [solution_type |-> "root_cause", was_successful |-> TRUE,
       grading |-> [overall_score |-> 10, is_correct |-> TRUE]],
      [solution_type |-> "root_cause", was_successful |-> TRUE,
       grading |-> [raises |-> TRUE]],
      [solution_type |-> "root_cause", was_successful |-> FALSE,
       grading |-> [raises |-> TRUE]],
      [solution_type |-> "escalation", was_successful |-> FALSE,
       grading |-> [llm_unavailable |-> TRUE, long_approach |-> TRUE,
                    long_code_changes |-> TRUE, has_commands |-> TRUE]],
      [solution_type |-> "abandonment", was_successful |-> FALSE,
       grading |-> [raises |-> TRUE]] }

\* minutes between the incident's start and the request
ResolveTimes == {7, 31}

\* the defaults of a new UserRating row
UserRatingDefaults ==
    [overall_rating |-> 800, debugging_skill |-> 800, system_design |-> 800,
     incident_response |-> 800, communication |-> 800,
     total_incidents_resolved |-> 0,
     average_resolution_time |-> Rat(0, 1), success_rate |-> Rat(0, 1)]

\* GenerateIncidentView.post: a new active incident assigned to the user
GenerateIncident ==
    /\ Len(incidents) < MaxIncidents
    /\ \E t \in IncidentTemplates :
           incidents' = Append(incidents,
                               [status |-> "active", severity |-> t.severity,
                                time_limit_minutes |-> t.time_limit_minutes,
                                solution_type |-> ""])
    /\ UNCHANGED <<timer_vars, call, ret, user_rating, attempts, req>>

\* UserRatingView.get: get_or_create, then a report that changes nothing
ViewUserRating ==
    /\ user_rating = None
    /\ user_rating' = Some(UserRatingDefaults)
    /\ UNCHANGED <<timer_vars, call, ret, attempts, incidents, req>>

\* LLMGrader._fallback_grading: the rule-based grading; the three flags are
\* len(user_resolution_approach) > 50, len(user_code_changes) > 20 and a
\* non-empty user_commands_executed
_fallback_grading(user_solution_type, time_spent_minutes, time_limit_minutes, texts) ==
    LET by_type == CASE user_solution_type = "root_cause" -> 2
                     [] user_solution_type = "workaround" -> 1
                     [] user_solution_type = "escalation" -> -1
                     [] user_solution_type = "abandonment" -> -3
                     [] OTHER -> 0
        time_efficiency == IF time_limit_minutes > 0
                           THEN Rat(time_spent_minutes, time_limit_minutes) ELSE Rat(1, 1)
        by_time == IF RatLt(time_efficiency, Rat(1, 2)) THEN 1
                   ELSE IF RatLt(Rat(1, 1), time_efficiency) THEN -1 ELSE 0
        by_text == (IF texts.long_approach THEN 1 ELSE 0)
                   + (IF texts.long_code_changes THEN 1 ELSE 0)
                   + (IF texts.has_commands THEN 1 ELSE 0)
        final_score == PyMax(1, PyMin(10, 5 + by_type + by_time + by_text))
    IN  [overall_score |-> final_score, is_correct |-> (final_score >= 6),
         grading_method |-> "fallback"]

\* LLMGrader.grade_incident_response: the language model's grading, the
\* rule-based one when the call to the model fails, or an exception
grade_incident_response(grading, user_solution_type, time_spent_minutes, time_limit_minutes) ==
    IF "llm_unavailable" \in DOMAIN grading
    THEN _fallback_grading(user_solution_type, time_spent_minutes, time_limit_minutes, grading)
    ELSE grading

\* a fallback whose score is outside the 1-10 scale
GradingResult_mut_zero(grading, was_successful) ==
    IF "raises" \in DOMAIN grading
    THEN [overall_score |-> 0, is_correct |-> was_successful, grading_method |-> "fallback"]
    ELSE [overall_score |-> grading.overall_score, is_correct |-> grading.is_correct,
          grading_method |-> Get(grading, "grading_method", "llm")]

\* the grading the view goes on with: the grader's, or the fallback built in
\* the except branch
GradingResult(grading, was_successful) ==
    IF "raises" \in DOMAIN grading
    THEN [overall_score |-> 5, is_correct |-> was_successful, grading_method |-> "fallback"]
    ELSE [overall_score |-> grading.overall_score, is_correct |-> grading.is_correct,
          grading_method |-> Get(grading, "grading_method", "llm")]

\* was_successful after the grading: overridden by the grader's verdict unless
\* the outcome is an abandonment or an escalation (or the grader raised)
SuccessAfterGrading(grading, was_successful, was_escalated, was_abandoned) ==
    IF "raises" \in DOMAIN grading THEN was_successful
    ELSE IF ~was_abandoned /\ ~was_escalated THEN grading.is_correct
    ELSE was_successful

\* lines 199-302: look the incident up, grade and score; no row is written
BeginResolve(r) ==
    /\ req[r].pc = "idle"
    /\ \E incident_id \in 1..MaxIncidents, input \in ResolveInputs,
          time_spent_minutes \in ResolveTimes :
           IF incident_id \notin DOMAIN incidents
           THEN req' = [req EXCEPT ![r] = Refused(404)]
           ELSE IF incidents[incident_id].status # "active"
           THEN req' = [req EXCEPT ![r] = Refused(400)]
           ELSE
           LET incident == incidents[incident_id]
               solution_type == input.solution_type
               asked_successful == input.was_successful
               grading == grade_incident_response(input.grading, solution_type,
                                                  time_spent_minutes,
                                                  incident.time_limit_minutes)
               was_escalated == solution_type = "escalation"
               was_abandoned == solution_type = "abandonment"
               llm_grading_result == GradingResult(grading, asked_successful)
               was_successful == SuccessAfterGrading(grading, asked_successful,
                                                     was_escalated, was_abandoned)
               rating_result ==
                   calculate_incident_rating_with_llm(
                       incident.time_limit_minutes, time_spent_minutes, solution_type,
                       incident.severity, was_successful, was_escalated, was_abandoned,
                       Some(llm_grading_result.overall_score),
                       Some(llm_grading_result.is_correct))
           IN  req' = [req EXCEPT ![r] =
                          [pc |-> "create",
                           incident_id |-> incident_id,
                           solution_type |-> solution_type,
                           was_successful |-> was_successful,
                           was_escalated |-> was_escalated,
                           time_spent_minutes |-> time_spent_minutes,
                           llm_grading_result |-> llm_grading_result,
                           rating_result |-> rating_result]]
    /\ UNCHANGED <<timer_vars, call, ret, user_rating, attempts, incidents>>

\* lines 306-338: IncidentAttempt.objects.create, which the database may refuse
CreateAttempt(r) ==
    /\ req[r].pc = "create"
    /\ \/ /\ attempts' =
                 <<[incident |-> req[r].incident_id,
                    time_spent_minutes |-> req[r].time_spent_minutes,
                    was_successful |-> req[r].was_successful,
                    was_root_cause_fix |-> (req[r].solution_type = "root_cause"),
                    points_earned |-> req[r].rating_result.total_points,
                    quality_score |-> req[r].rating_result.quality_multiplier]>>
                 \o attempts
          /\ req' = [req EXCEPT ![r] =
                        [pc |-> "save_incident",
                         incident_id |-> @.incident_id,
                         solution_type |-> @.solution_type,
                         was_successful |-> @.was_successful,
                         was_escalated |-> @.was_escalated,
                         grading_method |-> @.llm_grading_result.grading_method,
                         points_earned |-> @.rating_result.total_points]]
       \/ /\ req' = [req EXCEPT ![r] = Refused(500)]
          /\ UNCHANGED attempts
    /\ UNCHANGED <<timer_vars, call, ret, user_rating, incidents>>

\* a status rule that reopens the incident of a user who gave up
status_after_resolve_mut_reopen(was_successful, was_escalated) ==
    IF was_successful THEN "resolved" ELSE IF was_escalated THEN "escalated" ELSE "active"

\* line 341: 'resolved' if was_successful else 'escalated' if was_escalated
\* else 'abandoned'
status_after_resolve(was_successful, was_escalated) ==
    IF was_successful THEN "resolved" ELSE IF was_escalated THEN "escalated" ELSE "abandoned"

\* lines 341-345: incident.save() with the outcome's status
SaveIncident(r) ==
    /\ req[r].pc = "save_incident"
    /\ incidents' =
           [incidents EXCEPT ![req[r].incident_id] =
               [@ EXCEPT !.status = status_after_resolve(req[r].was_successful,
                                                         req[r].was_escalated),
                         !.solution_type = req[r].solution_type]]
    /\ req' = [req EXCEPT ![r] =
                  [pc |-> "get_rating", incident_id |-> @.incident_id,
                   was_successful |-> @.was_successful,
                   grading_method |-> @.grading_method, points_earned |-> @.points_earned]]
    /\ UNCHANGED <<timer_vars, call, ret, user_rating, attempts>>

\* line 348: UserRating.objects.get_or_create; the request keeps the row it read
GetOrCreateRating(r) ==
    /\ req[r].pc = "get_rating"
    /\ user_rating' = IF user_rating = None THEN Some(UserRatingDefaults) ELSE user_rating
    /\ req' = [req EXCEPT ![r] =
                  [pc |-> "query", incident_id |-> @.incident_id,
                   was_successful |-> @.was_successful,
                   grading_method |-> @.grading_method, points_earned |-> @.points_earned,
                   user_rating |-> user_rating'[1]]]
    /\ UNCHANGED <<timer_vars, call, ret, attempts, incidents>>

\* an aggregator input that holds the newest attempt only
recent_results_of_mut_latest(rows) ==
    [i \in 1..Len(Take(rows, 1)) |->
        [total_points |-> rows[i].points_earned,
         calculation_breakdown |->
             [severity |-> incidents[rows[i].incident].severity,
              time_limit |-> incidents[rows[i].incident].time_limit_minutes,
              actual_time |-> rows[i].time_spent_minutes,
              solution_type |-> IF rows[i].was_root_cause_fix THEN "root_cause"
                                ELSE "workaround"]]]

\* lines 351-362: the ten newest attempts of the user, as incident results
recent_results_of(rows) ==
    [i \in 1..Len(rows) |->
        [total_points |-> rows[i].points_earned,
         calculation_breakdown |->
             [severity |-> incidents[rows[i].incident].severity,
              time_limit |-> incidents[rows[i].incident].time_limit_minutes,
              actual_time |-> rows[i].time_spent_minutes,
              solution_type |-> IF rows[i].was_root_cause_fix THEN "root_cause"
                                ELSE "workaround"]]]

\* lines 351-380: read the recent attempts, aggregate, and set the fields of
\* the row the request holds
QueryRecent(r) ==
    /\ req[r].pc = "query"
    /\ LET recent_results == recent_results_of(Take(attempts, 10))
           rating_update == update_user_rating(req[r].user_rating.overall_rating, recent_results)
       IN  IF ~("skill_ratings" \in DOMAIN rating_update)
           THEN \* an empty history: rating_update['average_resolution_time'] raises KeyError
                req' = [req EXCEPT ![r] = Refused(500)]
           ELSE req' = [req EXCEPT ![r] =
                              [pc |-> "save_rating", incident_id |-> @.incident_id,
                               grading_method |-> @.grading_method,
                               points_earned |-> @.points_earned,
                               current_rating |-> @.user_rating.overall_rating,
                               recent_results |-> recent_results,
                               rating_update |-> rating_update,
                               user_rating |->
                                   [overall_rating |-> rating_update.new_rating,
                                    total_incidents_resolved |->
                                        @.user_rating.total_incidents_resolved
                                            + (IF @.was_successful THEN 1 ELSE 0),
                                    average_resolution_time |->
                                        rating_update.average_resolution_time,
                                    success_rate |-> rating_update.success_rate,
                                    debugging_skill |-> rating_update.skill_ratings.debugging_skill,
                                    system_design |-> rating_update.skill_ratings.system_design,
                                    incident_response |->
                                        rating_update.skill_ratings.incident_response,
                                    communication |-> rating_update.skill_ratings.communication]]]
    /\ UNCHANGED <<timer_vars, call, ret, user_rating, attempts, incidents>>

\* line 382: user_rating.save() writes every field of the row the request holds
SaveRating(r) ==
    /\ req[r].pc = "save_rating"
    /\ user_rating' = Some(req[r].user_rating)
    /\ req' = [req EXCEPT ![r] =
                  [pc |-> "done", status |-> 200, incident_id |-> @.incident_id,
                   grading_method |-> @.grading_method,
                   points_earned |-> @.points_earned,
                   new_rating |-> @.rating_update.new_rating]]
    /\ UNCHANGED <<timer_vars, call, ret, attempts, incidents>>

Init ==
    /\ call = NoCall
    /\ ret = Pending
    /\ FlowInit
    /\ TimerManagerInit

Next ==
    \/ GenerateIncident
    \/ ViewUserRating
    \/ \E r \in Requests :
           \/ BeginResolve(r)
           \/ CreateAttempt(r)
           \/ SaveIncident(r)
           \/ GetOrCreateRating(r)
           \/ QueryRecent(r)
           \/ SaveRating(r)

Spec == Init /\ [][Next]_vars

(***************************************************************************)
(* TimerManager: the calls of one caller and the background threads, one   *)
(* step per statement whose effect another thread can observe              *)
(***************************************************************************)
\* how many start_timer calls, minutes of clock and callback invocations
MaxStarts == 2

MaxClock == 2

MaxInvoked == 2

TimerIds == {"i1"}

\* time_limit_minutes of the timers started
TimerLimits == {1, 2}

\* the position of a thread that has not returned from time.sleep yet
NewThread(incident_id, total_seconds, wake_at) ==
    [pc |-> "sleep", incident_id |-> incident_id, total_seconds |-> total_seconds,
     wake_at |-> wake_at, timer_info |-> 0, callback |-> 0]

\* a callback call as the log keeps it: which callback, on which timer_info
Invocation(callback, timer_info) == [callback |-> callback, timer_info |-> timer_info]

\* start_timer, lines 35-47: build timer_info and store it under the id
StartTimer ==
    /\ main.op = "idle"
    /\ Len(timer_infos) < MaxStarts
    /\ \E incident_id \in TimerIds, time_limit_minutes \in TimerLimits, callback \in BOOLEAN :
           LET timer_info == Len(timer_infos) + 1
           IN  /\ timer_infos' =
                      Append(timer_infos,
                             [incident_id |-> incident_id,
                              start_time |-> now,
                              end_time |-> now + time_limit_minutes,
                              time_limit_minutes |-> time_limit_minutes,
                              is_active |-> TRUE,
                              remaining_seconds |-> time_limit_minutes * 60,
                              elapsed_seconds |-> 0,
                              is_expired |-> None,
                              stopped_time |-> None])
               /\ active_timers' = DictSet(active_timers, incident_id, timer_info)
               /\ main' = [op |-> "start_timer", incident_id |-> incident_id,
                           time_limit_minutes |-> time_limit_minutes,
                           callback |-> callback, timer_info |-> timer_info]
    /\ UNCHANGED <<timer_callbacks, timer_threads, now, invoked>>
    /\ UNCHANGED <<call, ret, flow_vars>>

\* start_timer, lines 49-61: register the callback, if one was given, start
\* the thread and return timer_info; the thread sleeps time_limit_minutes * 60
\* seconds from now on, so it cannot wake before end_time
StartTimerThread ==
    /\ main.op = "start_timer"
    /\ timer_callbacks' =
           IF main.callback
           THEN DictSet(timer_callbacks, main.incident_id, main.timer_info)
           ELSE timer_callbacks
    /\ timer_threads' =
           Append(timer_threads,
                  NewThread(main.incident_id, main.time_limit_minutes * 60,
                            now + main.time_limit_minutes))
    /\ main' = Returns("start_timer", main.incident_id, Some(main.timer_info))
    /\ UNCHANGED <<active_timers, timer_infos, now, invoked>>
    /\ UNCHANGED <<call, ret, flow_vars>>

\* stop_timer, lines 76-85: None for an unknown id; else mark the timer_info
\* stopped and compute the final times
StopTimer ==
    /\ main.op = "idle"
    /\ \E incident_id \in TimerIds :
           IF ~DictHas(active_timers, incident_id)
           THEN /\ main' = Returns("stop_timer", incident_id, None)
                /\ UNCHANGED timer_infos
           ELSE LET timer_info == DictGet(active_timers, incident_id)
                    info == timer_infos[timer_info]
                    elapsed_seconds == (now - info.start_time) * 60
                IN  /\ timer_infos' =
                           [timer_infos EXCEPT ![timer_info] =
                               [info EXCEPT
                                   !.is_active = FALSE,
                                   !.stopped_time = Some(now),
                                   !.elapsed_seconds = elapsed_seconds,
                                   !.remaining_seconds =
                                       PyMax(0, info.remaining_seconds - elapsed_seconds)]]
                    /\ main' = [op |-> "stop_timer", at |-> "del_timer",
                                incident_id |-> incident_id, timer_info |-> timer_info]
    /\ UNCHANGED <<active_timers, timer_callbacks, timer_threads, now, invoked>>
    /\ UNCHANGED <<call, ret, flow_vars>>

\* stop_timer, line 88: del self.active_timers[incident_id]
StopTimerDelTimer ==
    /\ main.op = "stop_timer" /\ main.at = "del_timer"
    /\ active_timers' = DictDel(active_timers, main.incident_id)
    /\ main' = [main EXCEPT !.at = "del_callback"]
    /\ UNCHANGED <<timer_callbacks, timer_infos, timer_threads, now, invoked>>
    /\ UNCHANGED <<call, ret, flow_vars>>

\* stop_timer, lines 90-92: drop the callback, if any, and return timer_info
StopTimerDelCallback ==
    /\ main.op = "stop_timer" /\ main.at = "del_callback"
    /\ timer_callbacks' = DictDel(timer_callbacks, main.incident_id)
    /\ main' = Returns("stop_timer", main.incident_id, Some(main.timer_info))
    /\ UNCHANGED <<active_timers, timer_infos, timer_threads, now, invoked>>
    /\ UNCHANGED <<call, ret, flow_vars>>

\* get_timer_status on the timer_infos and the log given: the times are
\* refreshed and, from end_time on, the timer is marked expired and the
\* callback registered under the id is called, at every such call
get_timer_status(infos, log, incident_id) ==
    IF ~DictHas(active_timers, incident_id)
    THEN [timer_infos |-> infos, invoked |-> log, result |-> None]
    ELSE LET timer_info == DictGet(active_timers, incident_id)
             info == infos[timer_info]
             elapsed_seconds == (now - info.start_time) * 60
             timed == [info EXCEPT
                          !.elapsed_seconds = elapsed_seconds,
                          !.remaining_seconds =
                              PyMax(0, info.time_limit_minutes * 60 - elapsed_seconds)]
             expired == now >= info.end_time
         IN  [timer_infos |->
                  [infos EXCEPT ![timer_info] =
                      IF expired
                      THEN [timed EXCEPT !.is_expired = Some(TRUE), !.is_active = FALSE]
                      ELSE [timed EXCEPT !.is_expired = Some(FALSE)]],
              invoked |->
                  IF expired /\ DictHas(timer_callbacks, incident_id)
                  THEN Append(log, Invocation(DictGet(timer_callbacks, incident_id),
                                              timer_info))
                  ELSE log,
              result |-> Some(timer_info)]

\* get_timer_status, lines 105-128, as one step of the caller
GetTimerStatus ==
    /\ main.op = "idle"
    /\ \E incident_id \in TimerIds :
           LET status == get_timer_status(timer_infos, invoked, incident_id)
           IN  /\ Len(status.invoked) <= MaxInvoked
               /\ timer_infos' = status.timer_infos
               /\ invoked' = status.invoked
               /\ main' = Returns("get_timer_status", incident_id, status.result)
    /\ UNCHANGED <<active_timers, timer_callbacks, timer_threads, now>>
    /\ UNCHANGED <<call, ret, flow_vars>>

RECURSIVE get_all_active_timers(_, _)
\* get_all_active_timers, lines 161-167: get_timer_status on each key in the
\* dict's order, keeping the timers whose status is still active (the result
\* lists their timer_infos, each of which carries its incident_id)
get_all_active_timers(keys, state) ==
    IF keys = <<>> THEN state
    ELSE LET status == get_timer_status(state.timer_infos, state.invoked, Head(keys))
             timer_info == status.result[1]
         IN  get_all_active_timers(
                 Tail(keys),
                 [timer_infos |-> status.timer_infos,
                  invoked |-> status.invoked,
                  result |-> IF status.timer_infos[timer_info].is_active
                             THEN Append(state.result, timer_info)
                             ELSE state.result])

GetAllActiveTimers ==
    /\ main.op = "idle"
    /\ LET all == get_all_active_timers(DictKeys(active_timers),
                                        [timer_infos |-> timer_infos, invoked |-> invoked,
                                         result |-> <<>>])
       IN  /\ Len(all.invoked) <= MaxInvoked
           /\ timer_infos' = all.timer_infos
           /\ invoked' = all.invoked
           /\ main' = Returns("get_all_active_timers", "", all.result)
    /\ UNCHANGED <<active_timers, timer_callbacks, timer_threads, now>>
    /\ UNCHANGED <<call, ret, flow_vars>>

\* cleanup_expired_timers, lines 169-181: forget the timers that are not
\* active or are marked expired, and their callbacks
CleanupExpiredTimers ==
    /\ main.op = "idle"
    /\ LET expired(e) == \/ ~timer_infos[e.value].is_active
                         \/ timer_infos[e.value].is_expired = Some(TRUE)
           expired_timers ==
               {active_timers[i].key : i \in {j \in 1..Len(active_timers) : expired(active_timers[j])}}
           live(e) == e.key \notin expired_timers
       IN  /\ expired_timers # {}
           /\ active_timers' = SelectSeq(active_timers, live)
           /\ timer_callbacks' = SelectSeq(timer_callbacks, live)
    /\ main' = Returns("cleanup_expired_timers", "", None)
    /\ UNCHANGED <<timer_infos, timer_threads, now, invoked>>
    /\ UNCHANGED <<call, ret, flow_vars>>

\* _timer_thread, lines 138-141: the sleep is over, at end_time at the
\* earliest; is the id in active_timers, with a timer_info that is active?
ThreadCheck(t) ==
    /\ timer_threads[t].pc = "sleep"
    /\ now >= timer_threads[t].wake_at
    /\ LET incident_id == timer_threads[t].incident_id
       IN  timer_threads' =
               [timer_threads EXCEPT ![t].pc =
                   IF /\ DictHas(active_timers, incident_id)
                      /\ timer_infos[DictGet(active_timers, incident_id)].is_active
                   THEN "load" ELSE "end"]
    /\ UNCHANGED <<active_timers, timer_callbacks, timer_infos, now, main, invoked>>
    /\ UNCHANGED <<call, ret, flow_vars>>

\* line 143: timer_info = self.active_timers[incident_id]; KeyError ends the
\* thread when the id was removed since the check
ThreadLoad(t) ==
    /\ timer_threads[t].pc = "load"
    /\ LET incident_id == timer_threads[t].incident_id
       IN  timer_threads' =
               IF DictHas(active_timers, incident_id)
               THEN [timer_threads EXCEPT ![t].pc = "expire",
                                          ![t].timer_info = DictGet(active_timers, incident_id)]
               ELSE [timer_threads EXCEPT ![t].pc = "died"]
    /\ UNCHANGED <<active_timers, timer_callbacks, timer_infos, now, main, invoked>>
    /\ UNCHANGED <<call, ret, flow_vars>>

\* line 144: timer_info['is_expired'] = True
ThreadExpire(t) ==
    /\ timer_threads[t].pc = "expire"
    /\ timer_infos' = [timer_infos EXCEPT ![timer_threads[t].timer_info].is_expired = Some(TRUE)]
    /\ timer_threads' = [timer_threads EXCEPT ![t].pc = "deactivate"]
    /\ UNCHANGED <<active_timers, timer_callbacks, now, main, invoked>>
    /\ UNCHANGED <<call, ret, flow_vars>>

\* line 145: timer_info['is_active'] = False
ThreadDeactivate(t) ==
    /\ timer_threads[t].pc = "deactivate"
    /\ timer_infos' = [timer_infos EXCEPT ![timer_threads[t].timer_info].is_active = FALSE]
    /\ timer_threads' = [timer_threads EXCEPT ![t].pc = "has_callback"]
    /\ UNCHANGED <<active_timers, timer_callbacks, now, main, invoked>>
    /\ UNCHANGED <<call, ret, flow_vars>>

\* line 148: if incident_id in self.timer_callbacks
ThreadHasCallback(t) ==
    /\ timer_threads[t].pc = "has_callback"
    /\ timer_threads' =
           [timer_threads EXCEPT ![t].pc =
               IF DictHas(timer_callbacks, timer_threads[t].incident_id)
               THEN "get_callback" ELSE "end"]
    /\ UNCHANGED <<active_timers, timer_callbacks, timer_infos, now, main, invoked>>
    /\ UNCHANGED <<call, ret, flow_vars>>

\* line 149: callback = self.timer_callbacks[incident_id]; KeyError ends the
\* thread when the callback was removed since the test
ThreadGetCallback(t) ==
    /\ timer_threads[t].pc = "get_callback"
    /\ LET incident_id == timer_threads[t].incident_id
       IN  timer_threads' =
               IF DictHas(timer_callbacks, incident_id)
               THEN [timer_threads EXCEPT ![t].pc = "call",
                                          ![t].callback = DictGet(timer_callbacks, incident_id)]
               ELSE [timer_threads EXCEPT ![t].pc = "died"]
    /\ UNCHANGED <<active_timers, timer_callbacks, timer_infos, now, main, invoked>>
    /\ UNCHANGED <<call, ret, flow_vars>>

\* line 150: callback(incident_id, timer_info)
ThreadCall(t) ==
    /\ timer_threads[t].pc = "call"
    /\ Len(invoked) < MaxInvoked
    /\ invoked' = Append(invoked, Invocation(timer_threads[t].callback,
                                             timer_threads[t].timer_info))
    /\ timer_threads' = [timer_threads EXCEPT ![t].pc = "end"]
    /\ UNCHANGED <<active_timers, timer_callbacks, timer_infos, now, main>>
    /\ UNCHANGED <<call, ret, flow_vars>>

\* a minute passes
Tick ==
    /\ now < MaxClock
    /\ now' = now + 1
    /\ UNCHANGED <<active_timers, timer_callbacks, timer_infos, timer_threads, main, invoked>>
    /\ UNCHANGED <<call, ret, flow_vars>>

TimerNext ==
    \/ StartTimer
    \/ StartTimerThread
    \/ StopTimer
    \/ StopTimerDelTimer
    \/ StopTimerDelCallback
    \/ GetTimerStatus
    \/ GetAllActiveTimers
    \/ CleanupExpiredTimers
    \/ Tick
    \/ \E t \in 1..Len(timer_threads) :
           \/ ThreadCheck(t)
           \/ ThreadLoad(t)
           \/ ThreadExpire(t)
           \/ ThreadDeactivate(t)
           \/ ThreadHasCallback(t)
           \/ ThreadGetCallback(t)
           \/ ThreadCall(t)

TimerSpec == Init /\ [][TimerNext]_vars

(***************************************************************************)
(* Properties of the resolve flow (Spec)                                   *)
(***************************************************************************)
\* the request ran to its response: it wrote its attempt, the incident and
\* the rating
Completed(r) == req[r].pc = "done" /\ req[r].status = 200

\* the persisted overall_rating stays where it is, or is created at 800, or is
\* assigned by a request the new_rating that update_user_rating returns for
\* the rating and the results the request read
RatingAssignedByAggregator ==
    IF user_rating = None
    THEN user_rating' # None => user_rating'[1].overall_rating = 800
    ELSE /\ user_rating' # None
         /\ user_rating'[1].overall_rating # user_rating[1].overall_rating
                => \E r \in Requests :
                       /\ req[r].pc = "save_rating" /\ req'[r].pc = "done"
                       /\ req[r].recent_results # <<>>
                       /\ user_rating'[1].overall_rating =
                              update_user_rating(req[r].current_rating,
                                                 req[r].recent_results).new_rating

\* C2: the rating record is created with overall_rating 800; after any
\* sequence of resolve operations, whatever their outcomes, the persisted
\* overall_rating is within [800,1600]; and it is changed only by assigning
\* the new_rating returned by update_user_rating.
C2_PersistedRatingBounded ==
    /\ [](user_rating # None =>
              (800 <= user_rating[1].overall_rating /\ user_rating[1].overall_rating <= 1600))
    /\ [][RatingAssignedByAggregator]_vars

\* two resolves completed, the second one raised the rating to the upper bound
C2_Witness ==
    /\ \A r \in Requests : Completed(r)
    /\ Len(attempts) = 2
    /\ user_rating[1].overall_rating = 1600
    /\ \E r \in Requests : req[r].new_rating = 1600 /\ req[r].points_earned > 0

\* the orders in which the requests can be served one after the other
SerialOrders ==
    {o \in [1..Cardinality(Requests) -> Requests] :
        \A i, j \in DOMAIN o : o[i] = o[j] => i = j}

\* the rating a request served alone computes over the history st: refused if
\* its incident is no longer active, else its attempt is recorded and the
\* aggregator runs on the rating and the ten newest attempts
ServedAlone(r, st) ==
    IF req[r].incident_id \in st.resolved THEN st
    ELSE LET points == <<req[r].points_earned>> \o st.points
             recent == Take(points, 10)
         IN  [rating |-> update_user_rating(
                             st.rating,
                             [i \in 1..Len(recent) |-> [total_points |-> recent[i]]]).new_rating,
              points |-> points,
              resolved |-> st.resolved \cup {req[r].incident_id}]

RECURSIVE SerialRun(_, _)
SerialRun(order, st) ==
    IF order = <<>> THEN st
    ELSE SerialRun(Tail(order), ServedAlone(Head(order), st))

\* the overall_rating each serial order of the requests leaves, from a new
\* rating record and no attempt
SerialRatings ==
    {SerialRun(o, [rating |-> 800, points |-> <<>>, resolved |-> {}]).rating :
        o \in SerialOrders}

\* C3: the read-modify-write of the rating is one transaction under
\* per-subject mutual exclusion: once two concurrent resolve requests of the
\* user, each for an incident of its own, have both completed, the persisted
\* overall_rating is the one some serial order of the two requests leaves; no
\* update is lost.
C3_SerialOutcome ==
    (/\ \A r \in Requests : Completed(r)
     /\ \A r, o \in Requests : req[r].incident_id = req[o].incident_id => r = o)
        => user_rating[1].overall_rating \in SerialRatings

\* the number of results with total_points > 0
StatedSuccesses(incident_results) ==
    Cardinality({i \in 1..Len(incident_results) :
                    /\ "total_points" \in DOMAIN incident_results[i]
                    /\ incident_results[i].total_points > 0})

\* round(800 + success_rate * 600 + success_rate * b), success_rate = s / n
StatedSkill(s, n, b) == RoundHalfEven(800 * n + 600 * s + b * s, n)

\* the four sub-ratings are the stated functions of the success rate of the
\* results, each within [800,1600]
SkillRatingsAsStated(incident_results, skill_ratings) ==
    LET n == Len(incident_results)
        s == StatedSuccesses(incident_results)
    IN  /\ skill_ratings.debugging_skill = StatedSkill(s, n, 50)
        /\ skill_ratings.system_design = StatedSkill(s, n, 30)
        /\ skill_ratings.incident_response = StatedSkill(s, n, 80)
        /\ skill_ratings.communication = StatedSkill(s, n, 20)
        /\ \A f \in DOMAIN skill_ratings : 800 <= skill_ratings[f] /\ skill_ratings[f] <= 1600

SkillFields == {"debugging_skill", "system_design", "incident_response", "communication"}

\* C18: the four skill sub-ratings update_user_rating returns depend only on
\* the success rate (results with total_points > 0 over results), not on
\* current_rating: each is round(800 + rate*600 + rate*b), b = 50, 30, 80, 20,
\* and lies within [800,1600]; so the persisted sub-ratings stay within
\* [800,1600] after any sequence of resolves.
C18_SkillRatingsBounded ==
    /\ user_rating # None
          => \A f \in SkillFields : 800 <= user_rating[1][f] /\ user_rating[1][f] <= 1600
    /\ \A r \in Requests :
          req[r].pc = "save_rating"
              => /\ SkillRatingsAsStated(req[r].recent_results, req[r].rating_update.skill_ratings)
                 /\ \A f \in SkillFields :
                        req[r].user_rating[f] = req[r].rating_update.skill_ratings[f]
                 /\ \A current_rating \in {800, 1000, 1600} :
                        update_user_rating(current_rating, req[r].recent_results).skill_ratings
                            = req[r].rating_update.skill_ratings

\* one success in two attempts, persisted: 800 + 300 + half of each bonus
C18_Witness ==
    /\ \E r \in Requests : Completed(r)
    /\ Len(attempts) = 2
    /\ user_rating # None
    /\ user_rating[1].debugging_skill = 1125
    /\ user_rating[1].system_design = 1115
    /\ user_rating[1].incident_response = 1140
    /\ user_rating[1].communication = 1110

\* the request holds a grading that replaced a failed one
GradedByFallback(r) ==
    \/ req[r].pc = "create" /\ req[r].llm_grading_result.grading_method = "fallback"
    \/ /\ req[r].pc \in {"save_incident", "get_rating", "query", "save_rating"}
       /\ req[r].grading_method = "fallback"

\* the scorer ran on a quality score of the 1-10 scale and a correctness
\* boolean, whatever became of the grading
ScoredOnAGrading(r) ==
    LET incident == incidents[req[r].incident_id]
        grading == req[r].llm_grading_result
    IN  /\ grading.overall_score \in 1..10
        /\ grading.is_correct \in BOOLEAN
        /\ req[r].rating_result =
               calculate_incident_rating_with_llm(
                   incident.time_limit_minutes, req[r].time_spent_minutes,
                   req[r].solution_type, incident.severity, req[r].was_successful,
                   req[r].was_escalated, req[r].solution_type = "abandonment",
                   Some(grading.overall_score), Some(grading.is_correct))

\* a request on an active incident is never turned away at the scoring; one
\* whose grading failed goes on through every later step like any other: only
\* the creation of the attempt row can refuse it, and its last step writes the
\* aggregator's new_rating
FallbackGoesOn ==
    \A r \in Requests :
        /\ (/\ req[r].pc = "idle" /\ req'[r].pc # "idle"
            /\ \A i \in 1..MaxIncidents : i \in DOMAIN incidents /\ incidents[i].status = "active")
               => req'[r].pc = "create"
        /\ (GradedByFallback(r) /\ req'[r] # req[r]) =>
               CASE req[r].pc = "create" ->
                        \/ req'[r].pc = "save_incident" /\ Len(attempts') = Len(attempts) + 1
                        \/ req'[r] = Refused(500) /\ attempts' = attempts
                 [] req[r].pc = "save_rating" ->
                        /\ req'[r].pc = "done" /\ req'[r].status = 200
                        /\ req[r].recent_results # <<>>
                        /\ user_rating'[1].overall_rating =
                               update_user_rating(req[r].current_rating,
                                                  req[r].recent_results).new_rating
                 [] OTHER -> req'[r].pc \in {"get_rating", "query", "save_rating"}

\* C23: a failure of the external grading call during resolve is never
\* propagated: a fallback grading (a quality score and a correctness boolean)
\* is in place before the scorer is invoked, so the scorer and the rating
\* update run on every resolve of an active incident whether the grading
\* succeeded or failed, and the request does not fail because of the grading.
C23_GradingFailureContained ==
    /\ [](\A r \in Requests : req[r].pc = "create" => ScoredOnAGrading(r))
    /\ [][FallbackGoesOn]_vars

\* both layers of fallback ran to a 200: one request graded by the view's
\* except branch, the other by the grader's rule-based grading
C23_Witness ==
    /\ \A r \in Requests : Completed(r) /\ req[r].grading_method = "fallback"
    /\ \E r \in Requests : attempts[1].incident = req[r].incident_id
                            /\ attempts[1].was_root_cause_fix
    /\ \E i \in DOMAIN incidents : incidents[i].status = "escalated"

\* the rating moved by the stated smoothing of the stated sum, within the bounds
MovedBySmoothedSum(before, after, results) ==
    \E change \in {(StatedTotalPoints(results) * StatedFactorTenths(before)) \div 10 + d : d \in {0, 1}} :
        /\ 2 * Abs(10 * change - StatedTotalPoints(results) * StatedFactorTenths(before)) <= 10
        /\ after = (IF before + change < 800 THEN 800
                    ELSE IF before + change > 1600 THEN 1600 ELSE before + change)

\* a request reads the points of all the (up to 10) newest attempts, its own
\* and the earlier ones, and the rating it then persists is the rating it
\* read moved by the smoothed sum of all of them
HistoryReapplied ==
    \A r \in Requests :
        /\ (req[r].pc = "query" /\ req'[r].pc = "save_rating") =>
               /\ Len(req'[r].recent_results) = Len(Take(attempts, 10))
               /\ \A i \in 1..Len(req'[r].recent_results) :
                      req'[r].recent_results[i].total_points = attempts[i].points_earned
               /\ \E i \in 1..Len(attempts) : attempts[i].incident = req[r].incident_id
        /\ (req[r].pc = "save_rating" /\ req'[r].pc = "done") =>
               MovedBySmoothedSum(req[r].current_rating, user_rating'[1].overall_rating,
                                  req[r].recent_results)

\* applying the aggregator to its own new_rating with the same history moves
\* the rating by the smoothed sum once more, so it stays only when that sum
\* smooths to 0 or the bound in its direction is hit
NotIdempotent(r) ==
    LET once == req[r].rating_update
        again == update_user_rating(once.new_rating, req[r].recent_results)
    IN  /\ MovedBySmoothedSum(once.new_rating, again.new_rating, req[r].recent_results)
        /\ again.new_rating = once.new_rating
               <=> \/ again.rating_change = 0
                   \/ again.rating_change > 0 /\ once.new_rating = 1600
                   \/ again.rating_change < 0 /\ once.new_rating = 800

\* C28: every resolve changes the persisted rating by the smoothed sum of the
\* points of the user's (up to) 10 most recent attempts, not by the delta of
\* the attempt just resolved: the points of one attempt are applied again at
\* each later resolve while it is among the 10 most recent, and re-applying
\* update_user_rating to its own new_rating with the same history moves the
\* rating again until a bound is hit.
C28_HistoryReappliedEachResolve ==
    /\ [](\A r \in Requests : req[r].pc = "save_rating" => NotIdempotent(r))
    /\ [][HistoryReapplied]_vars

\* two resolves one after the other: the points of the first attempt were
\* applied by the first resolve and again, with the second attempt's, by the
\* second, and the rating differs from the one the two deltas alone would give
C28_Witness ==
    /\ \A r \in Requests : Completed(r)
    /\ Len(attempts) = 2
    /\ attempts[2].points_earned # 0
    /\ LET first == clamp_rating(800 + _apply_rating_smoothing(attempts[2].points_earned, 800))
           both == attempts[2].points_earned + attempts[1].points_earned
       IN  /\ user_rating[1].overall_rating =
                  clamp_rating(first + _apply_rating_smoothing(both, first))
           /\ user_rating[1].overall_rating \notin {800, 1600}
           /\ user_rating[1].overall_rating #
                  clamp_rating(first + _apply_rating_smoothing(attempts[1].points_earned, first))

InFlight(r) == req[r].pc \notin {"idle", "done"}

AttemptsOn(i) == Cardinality({k \in 1..Len(attempts) : attempts[k].incident = i})

\* a request starts while another one is between its first and its last step
OverlappingBegin ==
    \E r \in Requests :
        /\ req[r].pc = "idle" /\ req'[r].pc # "idle"
        /\ \E o \in Requests \ {r} : InFlight(o)

\* what holds between the steps of requests served one after the other: an
\* incident has at most one attempt, an active one has none unless its one
\* request has just recorded it, and a request about to record an attempt
\* holds an active incident without attempts
OneAttemptEach ==
    /\ Cardinality({r \in Requests : InFlight(r)}) <= 1
    /\ \A i \in DOMAIN incidents :
           /\ AttemptsOn(i) <= 1
           /\ (incidents[i].status = "active" /\ AttemptsOn(i) = 1) =>
                  \E r \in Requests : req[r].pc = "save_incident" /\ req[r].incident_id = i
    /\ \A r \in Requests :
           /\ req[r].pc = "create" =>
                  /\ incidents[req[r].incident_id].status = "active"
                  /\ AttemptsOn(req[r].incident_id) = 0
           /\ req[r].pc \in {"get_rating", "query", "save_rating"} =>
                  incidents[req[r].incident_id].status # "active"

\* a refused request writes nothing; a request goes on only with an active
\* incident; saving the incident gives it one of the three final statuses;
\* no step makes a non-active incident active; and steps that do not overlap
\* requests keep every incident at one attempt at most
ResolvesOnlyActive ==
    /\ \A r \in Requests :
           /\ (req[r].pc = "idle" /\ req'[r].pc = "done") =>
                  /\ req'[r].status \in {400, 404}
                  /\ UNCHANGED <<attempts, incidents, user_rating>>
                  /\ req'[r].status = 400 =>
                         \E i \in DOMAIN incidents : incidents[i].status # "active"
           /\ (req[r].pc = "idle" /\ req'[r].pc = "create") =>
                  incidents[req'[r].incident_id].status = "active"
           /\ (req[r].pc = "save_incident" /\ req'[r].pc # "save_incident") =>
                  incidents'[req[r].incident_id].status \in {"resolved", "escalated", "abandoned"}
    /\ \A i \in DOMAIN incidents :
           incidents[i].status # "active" => incidents'[i].status # "active"
    /\ (OneAttemptEach /\ ~OverlappingBegin) => OneAttemptEach'

\* C30: a resolve request for an incident whose status is not 'active'
\* returns an error, records no attempt and leaves the incident and the
\* user's rating unchanged; a completed resolve moves the incident from
\* 'active' to exactly one of 'resolved', 'escalated', 'abandoned' and no
\* operation moves it back to 'active', so in any sequential execution each
\* incident yields at most one scored attempt.
C30_InactiveIsRefused == [][ResolvesOnlyActive]_vars

\* the first request resolved incident 1 and the second, sent afterwards for
\* an incident that is no longer active, was answered 400: one attempt stands
C30_Witness ==
    /\ Len(incidents) = 1
    /\ incidents[1].status = "resolved"
    /\ AttemptsOn(1) = 1
    /\ \E r \in Requests : Completed(r)
    /\ \E r \in Requests : req[r] = Refused(400)

(***************************************************************************)
(* Properties of the TimerManager (TimerSpec)                              *)
(***************************************************************************)
\* stop_timer has returned this timer_info
StopReturned(timer_info) ==
    /\ timer_infos[timer_info].stopped_time # None
    /\ ~(main.op = "stop_timer" /\ main.timer_info = timer_info)

\* start_timer was called again for the id of this timer_info
StartedAgain(timer_info) ==
    \E later \in (timer_info + 1)..Len(timer_infos) :
        timer_infos[later].incident_id = timer_infos[timer_info].incident_id

\* the callback calls the step makes
NewInvocations == {invoked'[i] : i \in (Len(invoked) + 1)..Len(invoked')}

\* the last call of the caller was a stop_timer that returned a timer_info
StopJustReturned ==
    main.op = "idle" /\ main.fn = "stop_timer" /\ main.result # None

\* no callback is called for a timer that stop_timer has returned, unless the
\* id was started again; a stop_timer that returns None changes nothing
StoppedStaysSilent ==
    /\ \A e \in NewInvocations :
           ~(StopReturned(e.callback) /\ ~StartedAgain(e.callback))
    /\ (main' # main /\ main'.op = "idle" /\ main'.fn = "stop_timer" /\ main'.result = None) =>
           /\ ~DictHas(active_timers, main'.incident_id)
           /\ UNCHANGED <<active_timers, timer_callbacks, timer_infos, timer_threads,
                          now, invoked>>

\* the first part of C25 alone: what stop_timer leaves behind when it returns
StopRemovesTimer ==
    StopJustReturned =>
        /\ ~DictHas(active_timers, main.incident_id)
        /\ ~DictHas(timer_callbacks, main.incident_id)
        /\ ~timer_infos[main.result[1]].is_active

\* C25: after stop_timer(id) returns for an active timer, id is in neither
\* active_timers nor timer_callbacks and the returned info has is_active =
\* false; from then on, under every interleaving with the timer's background
\* thread and absent a new start_timer for the same id, the callback
\* registered for that timer is never invoked; stop_timer for an id with no
\* active timer returns None and changes no state.
C25_StopSilencesCallback ==
    /\ []StopRemovesTimer
    /\ [][StoppedStaysSilent]_vars

\* how often the callback given to the k-th start_timer was called
TimesInvoked(k) == Cardinality({i \in 1..Len(invoked) : invoked[i].callback = k})

\* C26: for each timer started with a callback, the expiry callback is
\* invoked at most once over the timer's lifetime, whatever the interleaving
\* of the background thread's wake-up with any number of get_timer_status /
\* get_all_active_timers polls made after the end time.
C26_CallbackAtMostOnce ==
    \A k \in 1..Len(timer_infos) : TimesInvoked(k) <= 1

\* no timer is marked expired, and no callback is called on it, before its
\* own end_time
ExpiresOnItsOwnTime ==
    /\ \A k \in 1..Len(timer_infos) :
           (timer_infos[k].is_expired # Some(TRUE) /\ timer_infos'[k].is_expired = Some(TRUE))
               => now >= timer_infos[k].end_time
    /\ \A e \in NewInvocations : now >= timer_infos[e.timer_info].end_time

\* C27: a timer is marked expired and its callback fired only when its own
\* time limit has elapsed: after start_timer(id), stop_timer(id),
\* start_timer(id) again, the background thread of the first, stopped timer
\* never expires the second timer or fires its callback before the second
\* timer's end_time.
C27_NoStaleExpiry == [][ExpiresOnItsOwnTime]_vars

\* the same, for the second timer of a start, stop, start sequence only
RestartedTimerExpiresOnTime ==
    [][\A k \in 2..Len(timer_infos) :
           (/\ StopReturned(k - 1)
            /\ timer_infos[k - 1].stopped_time[1] <= timer_infos[k].start_time
            /\ timer_infos[k].is_expired # Some(TRUE)
            /\ timer_infos'[k].is_expired = Some(TRUE))
               => now >= timer_infos[k].end_time]_vars

====
